---------------------------- MODULE Spec2Model ----------------------------
(***************************************************************************)
(* A model of the AHK decompiler: the unpack detector and the memory       *)
(* script extractor (core/memory.py, core/extractor.py and the single-file *)
(* main.py), the PE resource parser (core/resources.py) and the worker     *)
(* pool of the orchestrator (gui/main_window.py).                          *)
(*                                                                         *)
(* Bytes are integers 0..255, byte strings and texts are sequences of      *)
(* them.  Positions inside byte strings are 0-based, as in Python.         *)
(***************************************************************************)
EXTENDS Integers, Sequences, FiniteSets, TLC

VARIABLES
    impl,             \* "core": core/memory.py + core/extractor.py; "legacy": main.py
    now,              \* the wall clock, time.time(), in seconds
    alive,            \* psutil.pid_exists(pid)
    openOK,           \* OpenProcess grants a handle to this process
    mem,              \* the target's memory map: the regions VirtualQueryEx reports
    appearAt,         \* the time at which the target has unpacked its image
    reads,            \* history: <<state, protect>> of every region read_region was called on
    \* ---- the frame of wait_for_unpack
    w_pc, timeout, check_interval, t0, current_time, signature_found,
    w_addr, w_hproc, w_ret, w_retTime, polls,
    w_why,            \* history: which return statement ended the wait
    seenAt,           \* history: when a secondary signature was first observed, or -1
    \* ---- the frame of extract_scripts
    pid,              \* the process id, as the file names show it
    is_subprocess,    \* the child path (core only)
    e_pc, e_addr, e_hproc, scripts, total, e_ret,
    writes,           \* the files written, in order: [name, data]
    processed,        \* history: the regions (by index) whose blob was scanned for scripts
    raised,           \* history: the regions (by index) whose scan raised an exception
    \* ---- the caller: process_single_pid (core), DumpGUI.dump (main.py)
    c_pc, is_main_process,
    status,           \* result['status']; main.py: what the message label shows
    scripts_count,    \* result['scripts_count']; main.py: n
    error,            \* result['error']; main.py: the text of the exception
    \* ---- the functions of core/resources.py, each applied to its inputs
    applied,          \* the function under study has been called and has returned
    sections, rva, file_offset,      \* _rva_to_file_offset
    tree, cut,        \* the resource tree rsrc_data was built from, the bytes kept of it
    rsrc_data, resources,            \* _parse_resource_directory
    logged,           \* one of the walker's except clauses ran
    text, likely,     \* _is_likely_ahk_script
    \* ---- DumpGUI._extract_from_all_processes and its thread pool
    x_pc,             \* where the calling thread is
    active_pids,      \* the processes to analyse, numbered 1..Len
    max_workers,
    task,             \* per process: the state of its process_single_pid task
    result,           \* per process: result['scripts_count'] of the finished task
    stop_monitoring,  \* the stop flag (threading.Event)
    yielded,          \* the futures as_completed has handed to the loop body
    total_scripts, completed,
    started_after_stop,  \* history: the tasks that began running with the flag set
    \* ---- one pass of enum_memory over the answers of the operating system
    en_pc, en_addr,
    en_yielded,       \* history: the tuples yielded, in order: [base, size]
    \* ---- PEResourceExtractor: load_file, then extract_rcdata_resources
    pe_image,         \* the executable the file was cut from
    file_data,        \* self.file_data: the bytes read
    pe_pc,
    load_ok,          \* what load_file returned
    pe_sections,      \* self.sections
    resource_section, \* self.resource_section: <<>> for None, else <<section_info>>
    pe_resources,     \* what extract_rcdata_resources returned
    \* ---- the output directory under the workers of one run, per process id
    f_pc,             \* where the worker's process_single_pid is
    f_retry,          \* the worker is in the second extract_scripts call
    f_left,           \* the regions enum_memory has still to yield in this call
    f_scripts,        \* scripts of the running extract_scripts call
    f_files,          \* the names of the files written so far
    f_clobbered,      \* history: the names written when they were already there
    \* ---- one run of the GUI: start_dump, dump_process, monitor_child_processes
    dump,             \* the frame of dump_process, and where its thread is
    monitor,          \* the frame of monitor_child_processes, and where its thread is
    stop_event,       \* self.stop_monitoring, the stop_event of the monitor
    monitored_pids,   \* self.monitored_pids
    monitor_children, \* the check box self.monitor_children
    kids,             \* the children of the primary process that are running
    terminated,       \* history: the pids terminate_process_safely was called on
    stop_first,       \* history: the stop flag was set before start_dump ("start_dump"),
                      \* or before the first statement of dump_process ("thread")
    \* ---- the heuristic paths applied to one byte string
    g_data,           \* the bytes: a memory blob of a child, or the data of a resource
    g_applied,        \* the paths applied so far
    g_raw,            \* what Method 2 of the child path wrote: <<>> or <<text>>
    g_res             \* what _extract_ahk_from_resource returned: <<>> or <<result>>

memVars == <<impl, now, alive, openOK, mem, appearAt, reads>>
waitVars == <<w_pc, timeout, check_interval, t0, current_time, signature_found,
              w_addr, w_hproc, w_ret, w_retTime, polls, w_why, seenAt>>
extVars == <<pid, is_subprocess, e_pc, e_addr, e_hproc, scripts, total, e_ret,
             writes, processed, raised>>
callVars == <<c_pc, is_main_process, status, scripts_count, error>>
rvaVars == <<sections, rva, file_offset>>
rsrcVars == <<tree, cut, rsrc_data, resources, logged>>
likelyVars == <<text, likely>>
poolVars == <<x_pc, active_pids, max_workers, task, result, stop_monitoring, yielded,
              total_scripts, completed, started_after_stop>>
enumVars == <<en_pc, en_addr, en_yielded>>
peVars == <<pe_image, file_data, pe_pc, load_ok, pe_sections, resource_section,
            pe_resources>>
fileVars == <<f_pc, f_retry, f_left, f_scripts, f_files, f_clobbered>>
runVars == <<dump, monitor, stop_event, monitored_pids, monitor_children, kids, terminated,
             stop_first>>
gateVars == <<g_data, g_applied, g_raw, g_res>>
moreVars == <<enumVars, peVars, fileVars, runVars, gateVars>>
toolVars == <<applied, rvaVars, rsrcVars, likelyVars, poolVars, moreVars>>
vars == <<memVars, waitVars, extVars, callVars, toolVars>>

\* what the steps of one function leave alone of the others
NotWait == <<extVars, callVars, toolVars>>
NotExtract == <<waitVars, callVars, toolVars>>
NotMore == <<memVars, waitVars, extVars, callVars, applied, rvaVars, rsrcVars, likelyVars,
             poolVars>>

----------------------------------------------------------------------------
(* Bounds of the model *)

MaxTimeout == 6       \* timeouts 0..MaxTimeout seconds are tried
MaxInterval == 2      \* poll intervals 0..MaxInterval seconds are tried
MaxScanCost == 1      \* reading one region takes 0..MaxScanCost seconds
MaxAppear == 1        \* the target unpacks at a time in 0..MaxAppear
MaxRegions == 2       \* memory maps of 1..MaxRegions regions

\* The clock saturates here: past every deadline the model compares against.
MaxTime == 2 * MaxTimeout + MaxInterval + MaxScanCost + 5

Advance(t, d) == IF t + d > MaxTime THEN MaxTime ELSE t + d

Min(S) == CHOOSE x \in S : \A y \in S : x <= y
Max(S) == CHOOSE x \in S : \A y \in S : x >= y

----------------------------------------------------------------------------
(* Byte strings *)

\* needle occurs in hay at 0-based position i
MatchAt(hay, needle, i) ==
    /\ i >= 0
    /\ i + Len(needle) <= Len(hay)
    /\ \A k \in 1..Len(needle) : hay[i + k] = needle[k]

\* bytes.find(needle, from): the lowest position >= from, or -1
Find(hay, needle, from) ==
    LET S == {i \in from..(Len(hay) - Len(needle)) : MatchAt(hay, needle, i)}
    IN  IF S = {} THEN -1 ELSE Min(S)

\* bytes.rfind(needle, lo, hi): the highest position of an occurrence inside hay[lo:hi], or -1
RFind(hay, needle, lo, hi) ==
    LET S == {i \in lo..(hi - Len(needle)) : MatchAt(hay, needle, i)}
    IN  IF S = {} THEN -1 ELSE Max(S)

\* needle in hay
Contains(hay, needle) == Find(hay, needle, 0) # -1

\* hay[lo:hi]
Slice(hay, lo, hi) ==
    LET h == IF hi > Len(hay) THEN Len(hay) ELSE hi
    IN  IF lo >= h THEN <<>> ELSE SubSeq(hay, lo + 1, h)

\* bitwise and of two naturals
RECURSIVE BitAnd(_, _)
BitAnd(a, b) ==
    IF a = 0 \/ b = 0 THEN 0
    ELSE 2 * BitAnd(a \div 2, b \div 2) + (IF a % 2 = 1 /\ b % 2 = 1 THEN 1 ELSE 0)


\* bytes.decode('utf-8', 'ignore') on byte strings whose bytes >= 0x80 never form a
\* valid multi-byte sequence (the only such bytes of this model are stray 0xFF and
\* 0x90): the ASCII bytes survive, the others are dropped
Utf8Ignore(b) == SelectSeq(b, LAMBDA x : x < 128)

\* str.isspace() of an ASCII character
IsSpace(c) == c \in {9, 10, 11, 12, 13, 28, 29, 30, 31, 32}

\* str.strip()
Strip(s) ==
    LET keep == {i \in 1..Len(s) : ~IsSpace(s[i])}
    IN  IF keep = {} THEN <<>> ELSE SubSeq(s, Min(keep), Max(keep))

\* the start positions re.finditer(needle, hay) yields from position `from` on:
\* left to right, not overlapping
RECURSIVE FindIter(_, _, _)
FindIter(hay, needle, from) ==
    LET i == Find(hay, needle, from)
    IN  IF i = -1 THEN <<>> ELSE <<i>> \o FindIter(hay, needle, i + Len(needle))

----------------------------------------------------------------------------
(* Windows memory constants and the signatures *)

MEM_COMMIT == 4096                  \* 0x1000
MEM_RESERVE == 8192                 \* 0x2000
MEM_FREE == 65536                   \* 0x10000
PAGE_NOACCESS == 1
PAGE_READONLY == 2
PAGE_READWRITE == 4
PAGE_EXECUTE_READ == 32
PAGE_EXECUTE_READWRITE == 64
PAGE_GUARD == 256                   \* 0x100

\* (0x02 | 0x04 | 0x20 | 0x40): R, RW, RX, RWX
PAGE_READABLE == PAGE_READONLY + PAGE_READWRITE + PAGE_EXECUTE_READ + PAGE_EXECUTE_READWRITE

COMPILER_SIGNATURE == <<67,79,77,80,73,76,69,82>>            \* b'COMPILER'
SCRIPT_END_PATTERN == <<0,0>>                                \* b'\x00\x00'
SCRIPT_MINIMUM_HEURISTIC == <<58,58>>                        \* '::'
NL == <<10>>                                                 \* b'\n'

\* the signatures wait_for_unpack looks for, in its order
unpack_signatures == <<
    COMPILER_SIGNATURE,
    <<65,117,116,111,72,111,116,107,101,121>>,                    \* b'AutoHotkey'
    <<83,101,110,100,73,110,112,117,116>>,                        \* b'SendInput'
    <<87,105,110,65,99,116,105,118,97,116,101>>,                  \* b'WinActivate'
    <<35,78,111,69,110,118>>,                                     \* b'#NoEnv'
    <<35,83,105,110,103,108,101,73,110,115,116,97,110,99,101>>,   \* b'#SingleInstance'
    <<58,58>> >>                                                  \* b'::'

\* the index of the first signature of the list that occurs in blob, 0 when none
\* does: the inner loop of wait_for_unpack stops at the first one found
FirstSignature(blob) ==
    LET S == {i \in 1..Len(unpack_signatures) : Contains(blob, unpack_signatures[i])}
    IN  IF S = {} THEN 0 ELSE Min(S)

----------------------------------------------------------------------------
(* The byte strings the target's regions hold *)

\* b'\nCOMPILER\nKey1::MsgBox, hi\n\x00\x00'
ScenarioCore ==
    <<10,67,79,77,80,73,76,69,82,10,75,101,121,49,58,58,77,115,103,66,111,120,44,32,104,105,10,0,0>>

Prefixes == <<
    <<>>,
    <<46,46,46>>,                                                \* b'...'
    <<35,78,111,69,110,118>>,                                    \* b'#NoEnv'
    <<255,0,0,58,58>>,                                           \* b'\xff\x00\x00::'
    <<67,79,77,80,73,76,69,82>>,                                 \* b'COMPILER'
    <<67,79,77,80,73,76,69,82,10,70,50,58,58,120,0,0>> >>        \* b'COMPILER\nF2::x\x00\x00'

Suffixes == <<
    <<>>,
    <<46,46,46>>,                                                \* b'...'
    <<58,58,0,0>>,                                               \* b'::\x00\x00'
    <<67,79,77,80,73,76,69,82>>,                                 \* b'COMPILER'
    <<10,67,79,77,80,73,76,69,82,10,70,51,58,58,121,0,0>> >>     \* b'\nCOMPILER\nF3::y\x00\x00'

\* <prefix>\nCOMPILER\nKey1::MsgBox, hi\n\x00\x00<suffix>
ScenarioBlob(p, s) == Prefixes[p] \o ScenarioCore \o Suffixes[s]

\* what the other regions hold
PackedBytes == <<85,80,88,33,255,144,144>>                       \* b'UPX!\xff\x90\x90'
SecondaryBytes == <<35,78,111,69,110,118,10,83,101,110,100,73,110,112,117,116,32,120>>
                                                                 \* b'#NoEnv\nSendInput x'
UnterminatedBytes == <<10,67,79,77,80,73,76,69,82,10,70,49,58,58,82,117,110>>
                                                                 \* b'\nCOMPILER\nF1::Run'
NoHotkeyBytes == <<10,67,79,77,80,73,76,69,82,10,77,115,103,66,111,120,10,0,0>>
                                                                 \* b'\nCOMPILER\nMsgBox\n\x00\x00'

RawBytes ==
    <<35,78,111,69,110,118,10,83,101,110,100,73,110,112,117,116,44,32,97,10,83,108,101,101,112,
      44,32,49,48,48,10,10,114,101,115,116>>      \* b'#NoEnv\nSendInput, a\nSleep, 100\n\nrest'
TwoColonBytes == <<97,58,58,98,10,99,58,58,100,10,83,108,101,101,112,121>>
                                                  \* b'a::b\nc::d\nSleepy'
QuotedBytes ==
    <<99,109,100,32,61,32,34,70,49,58,58,83,101,110,100,73,110,112,117,116,32,104,101,108,108,
      111,32,119,111,114,108,100,44,32,116,104,105,115,32,116,101,120,116,32,105,115,32,111,
      118,101,114,32,102,105,102,116,121,32,99,104,97,114,115,32,108,111,110,103,34>>
    \* b'cmd = "F1::SendInput hello world, this text is over fifty chars long"'
ShortQuotedBytes == <<39,94,106,58,58,115,108,101,101,112,32,49,48,39,32,39,120,39>>
                                                  \* b"'^j::sleep 10' 'x'"

\* A region's content is named by a blob id, and Bytes gives its bytes
EMPTY == <<"empty">>
PACKED == <<"packed">>              \* what a not yet unpacked region holds
SECONDARY == <<"secondary">>        \* secondary signatures only
UNTERMINATED == <<"unterminated">>  \* the marker, no end pattern
NOHOTKEY == <<"nohotkey">>          \* the marker, no '::'
RAW == <<"raw">>                    \* raw script lines, no marker
TWOCOLON == <<"twocolon">>          \* the hotkey token twice
QUOTED == <<"quoted">>              \* a script inside a string literal
SHORTQUOTED == <<"shortquoted">>    \* short string literals
SCENARIO(p, s) == <<"scenario", p, s>>

ScenarioIds == {SCENARIO(p, s) : p \in 1..Len(Prefixes), s \in 1..Len(Suffixes)}
BlobIds ==
    {EMPTY, PACKED, SECONDARY, UNTERMINATED, NOHOTKEY, RAW, TWOCOLON, QUOTED, SHORTQUOTED}
        \cup ScenarioIds

Bytes(id) ==
    CASE id[1] = "empty" -> <<>>
      [] id[1] = "packed" -> PackedBytes
      [] id[1] = "secondary" -> SecondaryBytes
      [] id[1] = "unterminated" -> UnterminatedBytes
      [] id[1] = "nohotkey" -> NoHotkeyBytes
      [] id[1] = "raw" -> RawBytes
      [] id[1] = "twocolon" -> TwoColonBytes
      [] id[1] = "quoted" -> QuotedBytes
      [] id[1] = "shortquoted" -> ShortQuotedBytes
      [] id[1] = "scenario" -> ScenarioBlob(id[2], id[3])

----------------------------------------------------------------------------
(* The target's memory, as the Windows calls report it *)

Region(sz, st, pr, b) == [size |-> sz, state |-> st, protect |-> pr, blob |-> b]

KFree == Region(2, MEM_FREE, PAGE_NOACCESS, EMPTY)
KReserved == Region(1, MEM_RESERVE, 0, EMPTY)
KNoAccess == Region(1, MEM_COMMIT, PAGE_NOACCESS, SECONDARY)
KGuard == Region(1, MEM_COMMIT, PAGE_READWRITE + PAGE_GUARD, SCENARIO(1, 1))
KPacked == Region(1, MEM_COMMIT, PAGE_READONLY, PACKED)
KSecondary == Region(2, MEM_COMMIT, PAGE_READWRITE, SECONDARY)
KPrimary == Region(1, MEM_COMMIT, PAGE_EXECUTE_READ, SCENARIO(1, 1))

\* the memory maps of 1..n regions of the given kinds
Images(kinds, n) == UNION {[1..k -> kinds] : k \in 1..n}

\* the base address of the i-th region: the regions lie back to back from address 0
RECURSIVE BaseOf(_, _)
BaseOf(m, i) == IF i = 1 THEN 0 ELSE BaseOf(m, i - 1) + m[i - 1].size

\* VirtualQueryEx(proc, addr, ...): the index of the region that holds addr, 0 when
\* the call fails (past the last region, or the process is gone)
VirtualQueryEx(m, up, addr) ==
    LET S == {i \in 1..Len(m) : BaseOf(m, i) <= addr /\ addr < BaseOf(m, i) + m[i].size}
    IN  IF ~up \/ S = {} THEN 0 ELSE Min(S)

\* ReadProcessMemory on a whole region: it transfers the bytes of a committed
\* region that is neither a guard page nor inaccessible, and fails otherwise
ReadProcessMemory(r, up) ==
    /\ up
    /\ r.state = MEM_COMMIT
    /\ BitAnd(r.protect, PAGE_GUARD) = 0
    /\ BitAnd(r.protect, PAGE_NOACCESS) = 0
    /\ r.protect # 0

\* read_region(proc, base, size): the bytes read, the empty string when the call fails
read_region(r, up, unpacked) ==
    IF ReadProcessMemory(r, up) THEN (IF unpacked THEN r.blob ELSE PACKED) ELSE EMPTY

is_readable_region(state, protect) ==
    state = MEM_COMMIT /\ BitAnd(protect, PAGE_READABLE) # 0

\* the signature checks, computed once per blob
SignatureOf == [b \in BlobIds |-> FirstSignature(Bytes(b))]
HasCompiler == [b \in BlobIds |-> Contains(Bytes(b), COMPILER_SIGNATURE)]

----------------------------------------------------------------------------
(* wait_for_unpack *)

\* `return v`, through the finally clause that closes the handle
WaitReturn(v, t, why) ==
    /\ w_pc' = "done"
    /\ w_ret' = v
    /\ w_why' = why
    /\ w_retTime' = t
    /\ w_hproc' = IF w_hproc = "open" THEN "closed" ELSE w_hproc

\* the rule without its delay
ConfirmsOnSecondaryNoDelay(found, cur, start) == found

\* core: lines 169-170; the elapsed time is the one taken when the poll began
ConfirmsOnSecondary(found, cur, start) == found /\ cur - start >= 5

\* the entry: pid_exists (core only), OpenProcess, t0
WU_Enter ==
    /\ w_pc = "call"
    /\ LET exists == impl = "legacy" \/ alive
           opened == exists /\ alive /\ openOK
       IN  /\ w_pc' = IF opened THEN "while" ELSE "done"
           /\ w_hproc' = IF opened THEN "open" ELSE "none"
           /\ w_ret' = IF opened THEN "none" ELSE "false"
           /\ w_why' = IF opened THEN "none" ELSE IF exists THEN "open_failed" ELSE "gone"
    /\ w_retTime' = now
    /\ t0' = now
    /\ signature_found' = FALSE
    /\ seenAt' = -1
    /\ UNCHANGED <<memVars, timeout, check_interval, current_time, w_addr, polls>>
    /\ UNCHANGED NotWait

\* the loop has run out of time: never unpacked, whatever was seen
AfterLoopNotUnpacked(i, found) == "false"

\* core: lines 176-179 and 186-187; legacy: the loop ends and the function returns
AfterLoop(i, found) == IF i = "core" /\ found THEN "true" ELSE "false"

\* the loop test, and what follows the loop
WU_While ==
    /\ w_pc = "while"
    /\ IF now - t0 < timeout
       THEN IF impl = "core" /\ ~alive
            THEN WaitReturn("false", now, "gone") /\ UNCHANGED <<current_time, w_addr, polls>>
            ELSE /\ w_pc' = "scan"
                 /\ current_time' = now
                 /\ w_addr' = 0
                 /\ polls' = IF polls < 2 THEN polls + 1 ELSE polls
                 /\ UNCHANGED <<w_ret, w_retTime, w_hproc, w_why>>
       ELSE /\ WaitReturn(AfterLoop(impl, signature_found), now, "timeout")
            /\ UNCHANGED <<current_time, w_addr, polls>>
    /\ UNCHANGED <<memVars, timeout, check_interval, t0, signature_found, seenAt>>
    /\ UNCHANGED NotWait

\* one step of `for base, size, state, prot in enum_memory(hproc)`
WU_Scan ==
    /\ w_pc = "scan"
    /\ LET q == VirtualQueryEx(mem, alive, w_addr) IN
       IF q = 0
       THEN /\ w_pc' = "sleep"
            /\ UNCHANGED <<now, reads, signature_found, seenAt, w_addr, w_ret, w_retTime,
                           w_hproc, w_why>>
       ELSE IF ~is_readable_region(mem[q].state, mem[q].protect)
       THEN /\ w_addr' = w_addr + mem[q].size
            /\ UNCHANGED <<now, reads, signature_found, seenAt, w_pc, w_ret, w_retTime,
                           w_hproc, w_why>>
       ELSE \E d \in 0..MaxScanCost :
            LET r == mem[q]
                blob == read_region(r, alive, now >= appearAt)
                sig == SignatureOf[blob]
                found == signature_found \/ sig > 0
                confirmed ==
                    IF impl = "core"
                    THEN blob # EMPTY
                         /\ (sig = 1 \/ ConfirmsOnSecondary(found, current_time, t0))
                    ELSE HasCompiler[blob]
            IN  /\ now' = Advance(now, d)
                /\ reads' = reads \cup {<<r.state, r.protect>>}
                /\ signature_found' = IF impl = "core" THEN found ELSE signature_found
                /\ seenAt' = IF impl = "core" /\ ~signature_found /\ sig > 1
                              THEN Advance(now, d) ELSE seenAt
                /\ IF confirmed
                   THEN /\ WaitReturn("true", Advance(now, d),
                                      IF impl = "core" /\ sig # 1 THEN "secondary"
                                      ELSE "confirmed")
                        /\ UNCHANGED w_addr
                   ELSE /\ w_addr' = w_addr + r.size
                        /\ UNCHANGED <<w_pc, w_ret, w_retTime, w_hproc, w_why>>
    /\ UNCHANGED <<impl, alive, openOK, mem, appearAt>>
    /\ UNCHANGED <<timeout, check_interval, t0, current_time, polls>>
    /\ UNCHANGED NotWait

\* time.sleep(check_interval)
WU_Sleep ==
    /\ w_pc = "sleep"
    /\ w_pc' = "while"
    /\ now' = Advance(now, check_interval)
    /\ UNCHANGED <<impl, alive, openOK, mem, appearAt, reads>>
    /\ UNCHANGED <<timeout, check_interval, t0, current_time, signature_found,
                   w_addr, w_hproc, w_ret, w_retTime, polls, w_why, seenAt>>
    /\ UNCHANGED NotWait

\* the program is inside one of the modelled functions
Running ==
    IF c_pc # "idle" THEN c_pc # "done"
    ELSE {w_pc, e_pc} \cap {"call", "while", "scan", "sleep", "loop"} # {}

\* the target process exits
EnvDie ==
    /\ alive
    /\ Running
    /\ alive' = FALSE
    /\ UNCHANGED <<impl, now, openOK, mem, appearAt, reads, waitVars, extVars, callVars, toolVars>>

ExtractIdle ==
    /\ pid = 0 /\ is_subprocess = FALSE /\ e_pc = "idle" /\ e_addr = 0 /\ e_hproc = "none"
    /\ scripts = 0 /\ total = 0 /\ e_ret = 0 /\ writes = <<>> /\ processed = {} /\ raised = {}

WaitIdle ==
    /\ w_pc = "idle" /\ timeout = 0 /\ check_interval = 0 /\ t0 = 0 /\ current_time = 0
    /\ signature_found = FALSE /\ w_addr = 0 /\ w_hproc = "none" /\ w_ret = "none"
    /\ w_retTime = 0 /\ polls = 0 /\ w_why = "none" /\ seenAt = -1

CallIdle ==
    /\ c_pc = "idle" /\ is_main_process = FALSE /\ status = "unknown" /\ scripts_count = 0
    /\ error = "none"

\* no target process
MemIdle ==
    /\ impl = "core" /\ now = 0 /\ alive = FALSE /\ openOK = FALSE /\ mem = <<>>
    /\ appearAt = 0 /\ reads = {}

ProcIdle == MemIdle /\ WaitIdle /\ ExtractIdle /\ CallIdle

None == <<"None">>

RvaIdle == sections = <<>> /\ rva = 0 /\ file_offset = None

RsrcIdle == tree = <<>> /\ cut = 0 /\ rsrc_data = <<>> /\ resources = <<>> /\ logged = FALSE

LikelyIdle == text = <<>> /\ likely = FALSE

PoolIdle ==
    /\ x_pc = "idle" /\ active_pids = <<>> /\ max_workers = 0 /\ task = <<>> /\ result = <<>>
    /\ stop_monitoring = FALSE /\ yielded = {} /\ total_scripts = 0 /\ completed = 0
    /\ started_after_stop = {}

EnumIdle == en_pc = "idle" /\ en_addr = 0 /\ en_yielded = <<>>

PeIdle ==
    /\ pe_image = <<>> /\ file_data = <<>> /\ pe_pc = "idle" /\ load_ok = FALSE
    /\ pe_sections = <<>> /\ resource_section = <<>> /\ pe_resources = <<>>

FilesIdle ==
    /\ f_pc = <<>> /\ f_retry = <<>> /\ f_left = <<>> /\ f_scripts = <<>>
    /\ f_files = {} /\ f_clobbered = {}

\* the locals of dump_process as the thread starts (main_window.py 455-458), the frames
\* of the functions it calls, and where the thread is
NewDump(pc) ==
    [pc |-> pc, i |-> 0, wait_cycles |-> 0, current_count |-> 0,
     it_for |-> "none", it_size |-> 0, it_seen |-> {}, active_pids |-> {},
     total_scripts |-> 0, main_process_unpacked |-> FALSE, waited |-> FALSE, extracted |-> FALSE, error |-> "none"]

\* the locals of monitor_child_processes as the thread starts (monitor.py 22-24)
NewMonitor(pc) ==
    [pc |-> pc, initial_children |-> {}, current_children |-> {}, todo |-> {}]

RunIdle ==
    /\ dump = NewDump("none") /\ monitor = NewMonitor("none")
    /\ stop_event = FALSE /\ monitored_pids = {}
    /\ monitor_children = FALSE /\ kids = {} /\ terminated = {} /\ stop_first = "no"

GateIdle == g_data = <<>> /\ g_applied = {} /\ g_raw = <<>> /\ g_res = <<>>

MoreIdle == EnumIdle /\ PeIdle /\ FilesIdle /\ RunIdle /\ GateIdle

FirstToolsIdle == applied = FALSE /\ RvaIdle /\ RsrcIdle /\ LikelyIdle /\ PoolIdle

ToolsIdle == FirstToolsIdle /\ MoreIdle

DetectorKinds == {KReserved, KGuard, KPacked, KSecondary, KPrimary}

\* wait_for_unpack called on a running target, with every timeout and interval
InitUnpack ==
    /\ impl \in {"core", "legacy"}
    /\ now = 0
    /\ alive = TRUE
    /\ openOK \in BOOLEAN
    /\ mem \in Images(DetectorKinds, MaxRegions)
    /\ appearAt \in 0..MaxAppear
    /\ reads = {}
    /\ w_pc = "call"
    /\ timeout \in 0..MaxTimeout
    /\ check_interval \in 0..MaxInterval
    /\ t0 = 0 /\ current_time = 0 /\ signature_found = FALSE /\ w_addr = 0
    /\ w_hproc = "none" /\ w_ret = "none" /\ w_retTime = 0 /\ polls = 0 /\ w_why = "none"
    /\ seenAt = -1
    /\ ExtractIdle
    /\ CallIdle
    /\ ToolsIdle

NextUnpack == WU_Enter \/ WU_While \/ WU_Scan \/ WU_Sleep \/ EnvDie

SpecUnpack == InitUnpack /\ [][NextUnpack]_vars

----------------------------------------------------------------------------
(* The unpack detector: C1, C2 *)

\* a region the detector reads and whose read succeeds
Scanned(r) == is_readable_region(r.state, r.protect) /\ ReadProcessMemory(r, TRUE)

\* the primary marker is in a committed readable region from t = 0
PrimaryAtStart ==
    appearAt = 0 /\ \E i \in 1..Len(mem) : Scanned(mem[i]) /\ HasCompiler[mem[i].blob]

\* only secondary signatures are readable, from t = 0
SecondaryOnlyAtStart ==
    /\ appearAt = 0
    /\ \E i \in 1..Len(mem) : Scanned(mem[i]) /\ SignatureOf[mem[i].blob] > 1
    /\ \A i \in 1..Len(mem) : Scanned(mem[i]) => ~HasCompiler[mem[i].blob]

\* wait_for_unpack of core/memory.py has returned, the process still running
CoreWaitDone == impl = "core" /\ w_pc = "done" /\ openOK /\ alive

\* C1: with the primary marker readable from t = 0, the detector returns True
\* during its first poll, for every timeout >= 0 and every poll interval.
C1_ConfirmedOnFirstPoll ==
    (CoreWaitDone /\ PrimaryAtStart) => (w_ret = "true" /\ polls = 1)

\* What the code does: the same, for every timeout > 0; with timeout = 0 the loop
\* body never runs.
C1_ConfirmedOnFirstPollPositiveTimeout ==
    (CoreWaitDone /\ PrimaryAtStart /\ timeout > 0) => (w_ret = "true" /\ polls = 1)

C1_ZeroTimeoutNeverPolls ==
    (CoreWaitDone /\ timeout = 0) => (w_ret = "false" /\ polls = 0)

----------------------------------------------------------------------------
(* extract_scripts: what one blob yields *)

\* the marker method keeping the text as sliced, without .strip()
CandidateAtUnstripped(blob, m) ==
    LET start == RFind(blob, NL, 0, m) + 1
        end == Find(blob, SCRIPT_END_PATTERN, m + Len(COMPILER_SIGNATURE))
        data == Utf8Ignore(Slice(blob, start, end))
    IN  IF end = -1 THEN <<>>
        ELSE IF Contains(data, SCRIPT_MINIMUM_HEURISTIC) THEN <<data>> ELSE <<>>

\* the text taken for the marker found at position m: from the start of the
\* marker's line to the end pattern; <<>> when the end pattern is missing or the
\* text holds no '::', else the one text
CandidateAt(blob, m) ==
    LET start == RFind(blob, NL, 0, m) + 1
        end == Find(blob, SCRIPT_END_PATTERN, m + Len(COMPILER_SIGNATURE))
        data == Strip(Utf8Ignore(Slice(blob, start, end)))
    IN  IF end = -1 THEN <<>>
        ELSE IF Contains(data, SCRIPT_MINIMUM_HEURISTIC) THEN <<data>> ELSE <<>>

RECURSIVE CandidatesAt(_, _)
CandidatesAt(blob, ms) ==
    IF ms = <<>> THEN <<>>
    ELSE CandidateAt(blob, Head(ms)) \o CandidatesAt(blob, Tail(ms))

\* the texts the marker method accepts in blob, in order
MarkerScripts(blob) == CandidatesAt(blob, FindIter(blob, COMPILER_SIGNATURE, 0))

\* ---- the child path, Method 2

Lower(c) == IF c >= 65 /\ c <= 90 THEN c + 32 ELSE c

\* a pattern of Method 2: a literal, matched ignoring case, followed (sep) by one
\* byte of [,\s]
Pat(l, sp) == [lit |-> l, sep |-> sp]

ahk_patterns == <<
    Pat(<<83,101,110,100,73,110,112,117,116>>, TRUE),                  \* rb'SendInput[,\s]'
    Pat(<<87,105,110,65,99,116,105,118,97,116,101>>, TRUE),            \* rb'WinActivate[,\s]'
    Pat(<<83,108,101,101,112>>, TRUE),                                 \* rb'Sleep[,\s]'
    Pat(<<67,111,110,116,114,111,108,67,108,105,99,107>>, TRUE),       \* rb'ControlClick[,\s]'
    Pat(<<87,105,110,87,97,105,116>>, TRUE),                           \* rb'WinWait[,\s]'
    Pat(<<73,102,87,105,110,69,120,105,115,116>>, TRUE),               \* rb'IfWinExist[,\s]'
    Pat(<<76,111,111,112>>, TRUE),                                     \* rb'Loop[,\s]'
    Pat(<<72,111,116,107,101,121>>, TRUE),                             \* rb'Hotkey[,\s]'
    Pat(<<35,78,111,69,110,118>>, FALSE),                              \* rb'#NoEnv'
    Pat(<<35,83,105,110,103,108,101,73,110,115,116,97,110,99,101>>, FALSE),  \* rb'#SingleInstance'
    Pat(<<35,73,110,99,108,117,100,101>>, FALSE),                      \* rb'#Include'
    Pat(<<58,58>>, FALSE),                                             \* rb'::'
    Pat(<<35,73,102,87,105,110>>, FALSE) >>                            \* rb'#IfWin'

\* \s of a bytes pattern, and the class [,\s]
IsByteSpace(c) == c \in {9, 10, 11, 12, 13, 32}
IsSep(c) == c = 44 \/ IsByteSpace(c)

PatLen(pat) == Len(pat.lit) + (IF pat.sep THEN 1 ELSE 0)

PatMatchAt(hay, pat, i) ==
    /\ i >= 0
    /\ i + PatLen(pat) <= Len(hay)
    /\ \A k \in 1..Len(pat.lit) : Lower(hay[i + k]) = Lower(pat.lit[k])
    /\ pat.sep => IsSep(hay[i + Len(pat.lit) + 1])

\* the start positions of re.finditer(pattern, blob, re.IGNORECASE)
RECURSIVE PatFindIter(_, _, _)
PatFindIter(hay, pat, from) ==
    LET S == {i \in from..(Len(hay) - PatLen(pat)) : PatMatchAt(hay, pat, i)}
    IN  IF S = {} THEN <<>>
        ELSE <<Min(S)>> \o PatFindIter(hay, pat, Min(S) + PatLen(pat))

\* pattern_matches: the matches of all the patterns, counted together
RECURSIVE PatternMatches(_, _)
PatternMatches(blob, k) ==
    IF k = 0 THEN 0
    ELSE PatternMatches(blob, k - 1) + Len(PatFindIter(blob, ahk_patterns[k], 0))

\* potential_start after the first k patterns: set from a pattern's first match
\* as long as it is still 0
RECURSIVE PotentialStart(_, _)
PotentialStart(blob, k) ==
    IF k = 0 THEN 0
    ELSE LET before == PotentialStart(blob, k - 1)
             ms == PatFindIter(blob, ahk_patterns[k], 0)
         IN  IF ms # <<>> /\ before = 0
             THEN (IF ms[1] - 100 > 0 THEN ms[1] - 100 ELSE 0)
             ELSE before

\* str.split('\n')
RECURSIVE Split(_)
Split(s) ==
    LET i == Find(s, NL, 0)
    IN  IF i = -1 THEN <<s>> ELSE <<Slice(s, 0, i)>> \o Split(Slice(s, i + 1, Len(s)))

\* '\n'.join(lines)
RECURSIVE Join(_)
Join(lines) ==
    IF lines = <<>> THEN <<>>
    ELSE IF Len(lines) = 1 THEN lines[1]
    ELSE lines[1] \o NL \o Join(Tail(lines))

\* the loop over lines: the stripped lines kept, up to the first empty or
\* null-led line that follows kept content
RECURSIVE CleanLines(_, _)
CleanLines(lines, kept) ==
    IF lines = <<>> THEN kept
    ELSE LET line == Strip(Head(lines))
         IN  IF line # <<>> /\ line[1] # 0
             THEN CleanLines(Tail(lines), Append(kept, line))
             ELSE IF kept # <<>> THEN kept
             ELSE CleanLines(Tail(lines), kept)

\* the text Method 2 accepts in blob: <<>> or the one text
RawScripts(blob) ==
    LET n == Len(ahk_patterns)
        clean_lines == CleanLines(Split(Utf8Ignore(Slice(blob, PotentialStart(blob, n), Len(blob)))), <<>>)
        clean_script == Join(clean_lines)
    IN  IF PatternMatches(blob, n) >= 2
           /\ Len(clean_lines) >= 3
           /\ \E k \in 1..8 : Contains(clean_script, ahk_patterns[k].lit)
        THEN <<clean_script>> ELSE <<>>

\* ---- the child path, Method 3

StringKeywords == <<
    Pat(<<83,101,110,100,73,110,112,117,116>>, FALSE),                 \* SendInput
    Pat(<<87,105,110,65,99,116,105,118,97,116,101>>, FALSE),           \* WinActivate
    Pat(<<83,108,101,101,112>>, FALSE) >>                              \* Sleep

\* the position of the first byte q at or after from, -1 when there is none
FindByte(hay, q, from) == Find(hay, <<q>>, from)

\* the matches [start, end) of q[^q]*(?:SendInput|WinActivate|Sleep)[^q]*q,
\* ignoring case, from position `from` on
RECURSIVE QuotedIter(_, _, _)
QuotedIter(hay, q, from) ==
    LET p == FindByte(hay, q, from)
        j == IF p = -1 THEN -1 ELSE FindByte(hay, q, p + 1)
        inner == Slice(hay, p + 1, j)
    IN  IF p = -1 \/ j = -1 THEN <<>>
        ELSE IF \E k \in 1..Len(StringKeywords) : PatFindIter(inner, StringKeywords[k], 0) # <<>>
        THEN <<<<p, j + 1>>>> \o QuotedIter(hay, q, j + 1)
        ELSE QuotedIter(hay, q, j)

\* str.strip('"\'')
StripQuotes(s) ==
    LET keep == {i \in 1..Len(s) : s[i] \notin {34, 39}}
    IN  IF keep = {} THEN <<>> ELSE SubSeq(s, Min(keep), Max(keep))

\* the first match whose content is accepted: <<>> or the one text
RECURSIVE FirstAccepted(_, _)
FirstAccepted(hay, ms) ==
    IF ms = <<>> THEN <<>>
    ELSE LET string_content == StripQuotes(Utf8Ignore(Slice(hay, Head(ms)[1], Head(ms)[2])))
         IN  IF Len(string_content) > 50 /\ Contains(string_content, <<58,58>>)
             THEN <<string_content>>
             ELSE FirstAccepted(hay, Tail(ms))

StringScripts(blob, q) == FirstAccepted(blob, QuotedIter(blob, q, 0))

\* ---- the candidates of one blob, in the order the code writes them

RECURSIVE Tagged(_, _)
Tagged(datas, tag) ==
    IF datas = <<>> THEN <<>>
    ELSE <<[tag |-> tag, data |-> Head(datas)]>> \o Tagged(Tail(datas), tag)

\* _extract_subprocess_scripts: Method 1, Method 2, Method 3 (double, then single quotes)
SubprocessCandidates(blob) ==
    Tagged(MarkerScripts(blob), "_subprocess")
        \o Tagged(RawScripts(blob), "_subprocess_raw")
        \o Tagged(StringScripts(blob, 34), "_subprocess_string")
        \o Tagged(StringScripts(blob, 39), "_subprocess_string")

\* the primary path of core, and main.py
MainCandidates(blob) == Tagged(MarkerScripts(blob), "")

----------------------------------------------------------------------------
(* extract_scripts *)

MainTable == [b \in BlobIds |-> MainCandidates(Bytes(b))]
SubprocessTable == [b \in BlobIds |-> SubprocessCandidates(Bytes(b))]

\* a name that tells the processes apart by nothing
FileNameWithoutPid(i, p, n, tag) == "script_" \o ToString(n) \o tag \o ".ahk"

\* f'{out_dir}/script_{pid}_{n}{tag}.ahk'; main.py: f'{out_dir}/script_{n}.ahk'
FileNameOf(i, p, n, tag) ==
    IF i = "legacy" THEN "script_" \o ToString(n) \o ".ahk"
    ELSE "script_" \o ToString(p) \o "_" \o ToString(n) \o tag \o ".ahk"

FileName(n, tag) == FileNameOf(impl, pid, n, tag)

\* the files of the candidates cands[1..k], numbered after `base`
RECURSIVE Written(_, _, _)
Written(cands, k, base) ==
    IF k = 0 THEN <<>>
    ELSE Append(Written(cands, k - 1, base),
                [name |-> FileName(base + k, cands[k].tag), data |-> cands[k].data])

\* the entry: makedirs, open_process
ES_Enter ==
    /\ e_pc = "call"
    /\ LET opened == alive /\ openOK
       IN  /\ e_pc' = IF opened THEN "loop" ELSE "done"
           /\ e_hproc' = IF opened THEN "open" ELSE "none"
    /\ scripts' = 0 /\ total' = 0 /\ e_addr' = 0 /\ e_ret' = 0
    /\ UNCHANGED <<memVars, pid, is_subprocess, writes, processed, raised>>
    /\ UNCHANGED NotExtract

\* one step of `for base, size, state, prot in enum_memory(hproc)`, and the end of
\* the loop.  fail is the write that raises (open() or f.write() failing), 0 for none.
ES_Region ==
    /\ e_pc = "loop"
    /\ LET q == VirtualQueryEx(mem, alive, e_addr) IN
       IF q = 0
       THEN /\ e_pc' = "done"
            /\ e_hproc' = "closed"
            /\ e_ret' = scripts
            /\ UNCHANGED <<reads, e_addr, scripts, total, writes, processed, raised>>
       ELSE IF ~is_readable_region(mem[q].state, mem[q].protect)
       THEN /\ e_addr' = e_addr + mem[q].size
            /\ UNCHANGED <<reads, e_pc, e_hproc, e_ret, scripts, total, writes, processed, raised>>
       ELSE LET r == mem[q]
                blob == read_region(r, alive, now >= appearAt)
                child == impl = "core" /\ is_subprocess
                cands == IF child THEN SubprocessTable[blob] ELSE MainTable[blob]
            IN  \E fail \in 0..Len(cands) :
                LET counted == IF fail = 0 THEN Len(cands) ELSE fail
                    stored == IF fail = 0 THEN Len(cands) ELSE fail - 1
                    \* the child path catches the exception inside the blob's scan
                    goes_on == fail = 0 \/ child
                IN  /\ reads' = reads \cup {<<r.state, r.protect>>}
                    /\ processed' = IF blob = EMPTY THEN processed ELSE processed \cup {q}
                    /\ raised' = IF fail = 0 THEN raised ELSE raised \cup {q}
                    /\ writes' = writes \o Written(cands, stored, scripts)
                    /\ scripts' = scripts + counted
                    /\ e_addr' = IF goes_on THEN e_addr + r.size ELSE e_addr
                    /\ total' = IF goes_on THEN total + r.size ELSE total
                    /\ e_pc' = IF goes_on THEN "loop"
                               ELSE IF impl = "core" THEN "done" ELSE "raised"
                    /\ e_hproc' = IF goes_on \/ impl = "legacy" THEN e_hproc ELSE "closed"
                    /\ e_ret' = IF goes_on \/ impl = "legacy" THEN e_ret ELSE scripts + counted
    /\ UNCHANGED <<impl, now, alive, openOK, mem, appearAt, pid, is_subprocess>>
    /\ UNCHANGED NotExtract

KRaw == Region(1, MEM_COMMIT, PAGE_READWRITE, RAW)
KQuoted == Region(1, MEM_COMMIT, PAGE_READONLY, QUOTED)
KUnterminated == Region(1, MEM_COMMIT, PAGE_EXECUTE_READWRITE, UNTERMINATED)
KTwoScripts == Region(2, MEM_COMMIT, PAGE_READWRITE, SCENARIO(1, 5))
KTwoColon == Region(1, MEM_COMMIT, PAGE_READWRITE, TWOCOLON)

ExtractKinds ==
    {KFree, KNoAccess, KGuard, KPrimary, KRaw, KQuoted, KUnterminated, KTwoScripts, KTwoColon}

\* a process whose memory is one readable blob of the form
\* <prefix>\nCOMPILER\nKey1::MsgBox, hi\n\x00\x00<suffix>
ScenarioImages == {<<Region(1, MEM_COMMIT, PAGE_READWRITE, b)>> : b \in ScenarioIds}

\* extract_scripts called on a running, unpacked target
InitExtract ==
    /\ impl \in {"core", "legacy"}
    /\ is_subprocess \in (IF impl = "core" THEN BOOLEAN ELSE {FALSE})
    /\ now = 0
    /\ alive = TRUE
    /\ openOK \in BOOLEAN
    /\ mem \in Images(ExtractKinds, MaxRegions) \cup ScenarioImages
    /\ appearAt = 0
    /\ reads = {}
    /\ pid = 7
    /\ e_pc = "call" /\ e_addr = 0 /\ e_hproc = "none" /\ scripts = 0 /\ total = 0
    /\ e_ret = 0 /\ writes = <<>> /\ processed = {} /\ raised = {}
    /\ WaitIdle
    /\ CallIdle
    /\ ToolsIdle

NextExtract == ES_Enter \/ ES_Region \/ EnvDie

SpecExtract == InitExtract /\ [][NextExtract]_vars

----------------------------------------------------------------------------
(* extract_scripts: C4, C5, C6 *)

Key1Text == <<75,101,121,49,58,58,77,115,103,66,111,120,44,32,104,105>>
                                                        \* 'Key1::MsgBox, hi'
MarkerLineText == COMPILER_SIGNATURE \o NL \o Key1Text   \* 'COMPILER\nKey1::MsgBox, hi'

\* the primary path has gone through the one blob of a scenario image, every
\* write succeeding
ScenarioExtracted ==
    /\ mem \in ScenarioImages /\ ~is_subprocess
    /\ e_pc = "done" /\ processed = {1} /\ raised = {}

\* neither the prefix nor the suffix of the scenario blob holds the marker
NoOtherMarker(id) ==
    /\ ~Contains(Prefixes[id[2]], COMPILER_SIGNATURE)
    /\ ~Contains(Suffixes[id[3]], COMPILER_SIGNATURE)

\* C4 as stated: the primary path on <prefix>\nCOMPILER\nKey1::MsgBox, hi\n\x00\x00<suffix>
\* writes exactly one script, whose content is exactly 'Key1::MsgBox, hi'.
C4_WritesExactlyKey1Text ==
    ScenarioExtracted => (Len(writes) = 1 /\ writes[1].data = Key1Text)

\* C4 amended: when neither prefix nor suffix holds a further COMPILER marker, the
\* primary path writes exactly one script, whose content is the marker's line
\* and the script text, 'COMPILER\nKey1::MsgBox, hi'.
C4_WritesMarkerLineAndText ==
    (ScenarioExtracted /\ NoOtherMarker(mem[1].blob))
    => (Len(writes) = 1 /\ scripts = 1 /\ e_ret = 1 /\ writes[1].data = MarkerLineText)

C4_Witness ==
    /\ ScenarioExtracted /\ NoOtherMarker(mem[1].blob)
    /\ mem[1].blob = SCENARIO(4, 3) /\ impl = "core"
    /\ Len(writes) = 1 /\ writes[1].data = MarkerLineText

\* C5: in both paths, when the blob of one region raises (here: a failed file
\* write), every later readable region of the process is still read and scanned.
C5_LaterRegionsStillScanned ==
    (e_pc \in {"done", "raised"} /\ alive)
    => \A q \in raised : \A q2 \in (q + 1)..Len(mem) :
           Scanned(mem[q2]) => q2 \in processed

\* What the code does on the child path: the claim holds there.
C5_ChildLaterRegionsStillScanned ==
    (e_pc \in {"done", "raised"} /\ alive /\ impl = "core" /\ is_subprocess)
    => \A q \in raised : \A q2 \in (q + 1)..Len(mem) :
           Scanned(mem[q2]) => q2 \in processed

\* C6: read_region is never called on a region that is Free or Reserved, or whose
\* protection includes NoAccess or Guard.
C6_NeverReadsGuardedRegion ==
    \A rd \in reads :
        /\ rd[1] = MEM_COMMIT
        /\ BitAnd(rd[2], PAGE_NOACCESS) = 0
        /\ BitAnd(rd[2], PAGE_GUARD) = 0

\* What the code does guarantee: committed, and one of the readable bits set.
C6_ReadsOnlyCommittedReadableBit ==
    \A rd \in reads : rd[1] = MEM_COMMIT /\ BitAnd(rd[2], PAGE_READABLE) # 0

----------------------------------------------------------------------------
(* The callers: process_single_pid (core/extractor.py), DumpGUI.dump (main.py) *)

\* the configured unpack timeouts: DEFAULT_UNPACK_TIMEOUT for the primary,
\* DEFAULT_CHILD_UNPACK_TIMEOUT * 2 for a child
DefaultTimeouts == 1..(MaxTimeout \div 2)

\* lines 224-238: pid_exists, the timeout, the call of wait_for_unpack
PSP_Call ==
    /\ impl = "core" /\ c_pc = "call"
    /\ IF ~alive
       THEN /\ status' = "terminated_before_processing"
            /\ c_pc' = "done"
            /\ UNCHANGED <<w_pc, timeout, check_interval>>
       ELSE /\ \E d \in DefaultTimeouts : timeout' = IF is_main_process THEN d ELSE d * 2
            /\ check_interval' \in 1..MaxInterval
            /\ w_pc' = "call"
            /\ c_pc' = "wait"
            /\ UNCHANGED status
    /\ UNCHANGED <<toolVars, memVars, extVars, is_main_process, scripts_count, error>>
    /\ UNCHANGED <<t0, current_time, signature_found, w_addr, w_hproc, w_ret, w_retTime,
                   polls, w_why, seenAt>>

\* lines 240-249: wait_for_unpack has returned
PSP_AfterWait ==
    /\ impl = "core" /\ c_pc = "wait" /\ w_pc = "done"
    /\ IF w_ret = "true"
       THEN status' = "unpacked_successfully" /\ c_pc' = "exists"
       ELSE IF alive
       THEN status' = "unpack_timeout" /\ c_pc' = "exists"
       ELSE status' = "terminated_during_unpack" /\ c_pc' = "done"
    /\ UNCHANGED <<toolVars, memVars, waitVars, extVars, is_main_process, scripts_count, error>>

\* lines 252-253, 271-272: pid_exists, the call of extract_scripts
PSP_Extract ==
    /\ impl = "core" /\ c_pc = "exists"
    /\ IF alive
       THEN /\ e_pc' = "call"
            /\ is_subprocess' = ~is_main_process
            /\ c_pc' = "extract"
            /\ UNCHANGED status
       ELSE /\ status' = "terminated_before_extraction"
            /\ c_pc' = "done"
            /\ UNCHANGED <<e_pc, is_subprocess>>
    /\ UNCHANGED <<toolVars, memVars, waitVars, is_main_process, scripts_count, error>>
    /\ UNCHANGED <<pid, e_addr, e_hproc, scripts, total, e_ret, writes, processed, raised>>

\* lines 254-265 without the renaming of the status at lines 255-258
PSP_AfterExtract_KeepsStatus ==
    /\ impl = "core" /\ c_pc = "extract" /\ e_pc = "done"
    /\ scripts_count' = e_ret
    /\ status' = status
    /\ IF ~is_main_process /\ e_ret = 0
       THEN now' = Advance(now, 2) /\ c_pc' = "retry_exists"
       ELSE now' = now /\ c_pc' = "done"
    /\ UNCHANGED <<impl, alive, openOK, mem, appearAt, reads>>
    /\ UNCHANGED <<toolVars, waitVars, extVars, is_main_process, error>>

\* lines 254-265: extract_scripts has returned; a child without scripts sleeps 2 s
PSP_AfterExtract ==
    /\ impl = "core" /\ c_pc = "extract" /\ e_pc = "done"
    /\ scripts_count' = e_ret
    /\ status' = IF status = "unpack_timeout" THEN "extracted_after_timeout"
                 ELSE IF status = "unpacked_successfully" THEN "extracted_successfully"
                 ELSE status
    /\ IF ~is_main_process /\ e_ret = 0
       THEN now' = Advance(now, 2) /\ c_pc' = "retry_exists"
       ELSE now' = now /\ c_pc' = "done"
    /\ UNCHANGED <<impl, alive, openOK, mem, appearAt, reads>>
    /\ UNCHANGED <<toolVars, waitVars, extVars, is_main_process, error>>

\* lines 266-267: pid_exists, the second call of extract_scripts
PSP_Retry ==
    /\ impl = "core" /\ c_pc = "retry_exists"
    /\ IF alive
       THEN e_pc' = "call" /\ is_subprocess' = TRUE /\ c_pc' = "retry"
       ELSE c_pc' = "done" /\ UNCHANGED <<e_pc, is_subprocess>>
    /\ UNCHANGED <<toolVars, memVars, waitVars, is_main_process, status, scripts_count, error>>
    /\ UNCHANGED <<pid, e_addr, e_hproc, scripts, total, e_ret, writes, processed, raised>>

\* lines 268-270: the second extract_scripts has returned
PSP_AfterRetry ==
    /\ impl = "core" /\ c_pc = "retry" /\ e_pc = "done"
    /\ scripts_count' = e_ret
    /\ status' = IF e_ret > 0 THEN "extracted_on_retry" ELSE status
    /\ c_pc' = "done"
    /\ UNCHANGED <<toolVars, memVars, waitVars, extVars, is_main_process, error>>

\* lines 275-278: os.makedirs (line 27) raises inside either call of
\* extract_scripts; the except clause stores the text and the status 'error'
PSP_Except ==
    /\ impl = "core" /\ c_pc \in {"extract", "retry"} /\ e_pc = "call"
    /\ e_pc' = "idle"
    /\ error' = "OSError"
    /\ status' = "error"
    /\ c_pc' = "done"
    /\ UNCHANGED <<toolVars, memVars, waitVars, is_main_process, scripts_count>>
    /\ UNCHANGED <<pid, is_subprocess, e_addr, e_hproc, scripts, total, e_ret, writes,
                   processed, raised>>

\* main.py lines 88-92: Popen, wait_for_unpack(proc.pid) with its default interval
Dump_Call ==
    /\ impl = "legacy" /\ c_pc = "call"
    /\ timeout' \in 1..MaxTimeout
    /\ check_interval' = 1
    /\ w_pc' = "call"
    /\ c_pc' = "wait"
    /\ UNCHANGED <<toolVars, memVars, extVars, is_main_process, status, scripts_count, error>>
    /\ UNCHANGED <<t0, current_time, signature_found, w_addr, w_hproc, w_ret, w_retTime,
                   polls, w_why, seenAt>>

\* main.py lines 93-98: `if not ok: raise RuntimeError`, caught at line 103
Dump_AfterWait ==
    /\ impl = "legacy" /\ c_pc = "wait" /\ w_pc = "done"
    /\ IF w_ret = "true"
       THEN /\ e_pc' = "call"
            /\ c_pc' = "extract"
            /\ UNCHANGED <<status, error>>
       ELSE /\ status' = "error"
            /\ error' = "Timeout waiting for unpack"
            /\ c_pc' = "done"
            /\ UNCHANGED e_pc
    /\ UNCHANGED <<toolVars, memVars, waitVars, is_main_process, scripts_count>>
    /\ UNCHANGED <<pid, is_subprocess, e_addr, e_hproc, scripts, total, e_ret, writes,
                   processed, raised>>

\* main.py lines 100-105: proc.terminate(), the count shown; or the exception shown
Dump_AfterExtract ==
    /\ impl = "legacy" /\ c_pc = "extract" /\ e_pc \in {"done", "raised"}
    /\ IF e_pc = "done"
       THEN /\ alive' = FALSE
            /\ scripts_count' = e_ret
            /\ status' = "extracted"
            /\ UNCHANGED error
       ELSE /\ status' = "error"
            /\ error' = "write failed"
            /\ UNCHANGED <<alive, scripts_count>>
    /\ c_pc' = "done"
    /\ UNCHANGED <<impl, now, openOK, mem, appearAt, reads>>
    /\ UNCHANGED <<toolVars, waitVars, extVars, is_main_process>>

PidKinds == {KReserved, KPacked, KSecondary, KPrimary, KRaw}

\* one target process handed to the caller; it unpacks at appearAt
InitPid ==
    /\ impl \in {"core", "legacy"}
    /\ is_main_process \in (IF impl = "core" THEN BOOLEAN ELSE {TRUE})
    /\ now = 0
    /\ alive = TRUE
    /\ openOK \in BOOLEAN
    /\ mem \in Images(PidKinds, MaxRegions)
    /\ appearAt \in 0..(MaxAppear + 2)
    /\ reads = {}
    /\ pid = 7 /\ is_subprocess = FALSE
    /\ e_pc = "idle" /\ e_addr = 0 /\ e_hproc = "none" /\ scripts = 0 /\ total = 0
    /\ e_ret = 0 /\ writes = <<>> /\ processed = {} /\ raised = {}
    /\ WaitIdle
    /\ c_pc = "call" /\ status = "unknown" /\ scripts_count = 0 /\ error = "none"
    /\ ToolsIdle

NextPid ==
    \/ PSP_Call \/ PSP_AfterWait \/ PSP_Extract \/ PSP_AfterExtract \/ PSP_Retry
    \/ PSP_AfterRetry \/ PSP_Except
    \/ Dump_Call \/ Dump_AfterWait \/ Dump_AfterExtract
    \/ WU_Enter \/ WU_While \/ WU_Scan \/ WU_Sleep
    \/ ES_Enter \/ ES_Region
    \/ EnvDie

SpecPid == InitPid /\ [][NextPid]_vars

----------------------------------------------------------------------------
(* The callers: C3 *)

\* the caller has returned after a wait that timed out, the process still there
TimedOutStillExisting == c_pc = "done" /\ w_why = "timeout" /\ w_ret = "false" /\ alive

\* the caller has returned after a wait that ended because the process was gone
WaitEndedGone == c_pc = "done" /\ w_why = "gone"

\* C3: after a wait that timed out with the process still existing the caller
\* goes on to extract_scripts and reports no error; after a wait that ended because
\* the process was gone, extract_scripts is not called and the result has zero scripts.
C3_CallerPolicy ==
    /\ TimedOutStillExisting => (e_pc # "idle" /\ status # "error")
    /\ WaitEndedGone => (e_pc = "idle" /\ scripts_count = 0)

\* What the code does: process_single_pid follows the policy; the only error it
\* reports after a timeout is an exception raised by extract_scripts itself.
C3_ProcessSinglePidPolicy ==
    impl = "core" =>
        /\ (TimedOutStillExisting /\ error = "none")
           => (e_pc = "done" /\ status \in {"extracted_after_timeout", "extracted_on_retry"})
        /\ WaitEndedGone
           => (e_pc = "idle" /\ scripts_count = 0 /\ status = "terminated_during_unpack")

\* DumpGUI.dump of main.py turns every False of the wait into an error.
C3_LegacyTimeoutIsError ==
    (impl = "legacy" /\ c_pc = "done" /\ w_ret = "false")
    => (status = "error" /\ e_pc = "idle" /\ scripts_count = 0)

----------------------------------------------------------------------------
(* PEResourceExtractor._rva_to_file_offset *)

MaxSections == 2      \* section lists of 1..MaxSections sections
MaxRva == 8           \* the RVAs 0..MaxRva are translated

\* one entry of self.sections, as _parse_pe_headers appends it: any three 32-bit
\* fields of a section header (here small values)
Section(va, vs, ro) == [virtual_address |-> va, virtual_size |-> vs, raw_offset |-> ro]

SectionHeaders == {Section(va, vs, ro) : va \in {2, 4}, vs \in {0, 2, 3}, ro \in {10, 20}}

RECURSIVE SectionLists(_)
SectionLists(n) ==
    IF n = 0 THEN {<<>>}
    ELSE LET shorter == SectionLists(n - 1)
         IN  shorter \cup {Append(l, h) : l \in {x \in shorter : Len(x) = n - 1},
                                          h \in SectionHeaders}

\* the loop over self.sections from index i on
RECURSIVE rva_to_file_offset(_, _, _)
rva_to_file_offset(secs, r, i) ==
    IF i > Len(secs) THEN None
    ELSE LET va_start == secs[i].virtual_address
             va_end == va_start + secs[i].virtual_size
         IN  IF va_start <= r /\ r < va_end
             THEN <<"offset", secs[i].raw_offset + (r - va_start)>>
             ELSE rva_to_file_offset(secs, r, i + 1)

RVA_Translate ==
    /\ ~applied
    /\ applied' = TRUE
    /\ file_offset' = rva_to_file_offset(sections, rva, 1)
    /\ UNCHANGED <<sections, rva, rsrcVars, likelyVars, poolVars, moreVars>>
    /\ UNCHANGED <<memVars, waitVars, extVars, callVars>>

InitRva ==
    /\ ProcIdle
    /\ MoreIdle
    /\ applied = FALSE
    /\ sections \in SectionLists(MaxSections) \ {<<>>}
    /\ rva \in 0..MaxRva
    /\ file_offset = None
    /\ RsrcIdle
    /\ LikelyIdle
    /\ PoolIdle

NextRva == RVA_Translate

SpecRva == InitRva /\ [][NextRva]_vars

\* rva lies in the virtual range of section i
InSection(i) ==
    /\ sections[i].virtual_address <= rva
    /\ rva < sections[i].virtual_address + sections[i].virtual_size

\* C7: the RVA equal to a section's virtual_address translates to that section's
\* raw_offset, for every section of every section list; an RVA at or past the end of
\* the last section's range and inside no section translates to None.
C7_SectionStartGivesRawOffset ==
    applied =>
        /\ \A i \in 1..Len(sections) :
               rva = sections[i].virtual_address
               => file_offset = <<"offset", sections[i].raw_offset>>
        /\ (/\ rva >= sections[Len(sections)].virtual_address
                      + sections[Len(sections)].virtual_size
            /\ \A i \in 1..Len(sections) : ~InSection(i))
           => file_offset = None

\* What the code does: the first section in list order whose range holds the RVA
\* decides; a section of virtual_size 0 holds no RVA.
C7_FirstContainingSectionDecides ==
    applied =>
        \A i \in 1..Len(sections) :
            (InSection(i) /\ \A j \in 1..(i - 1) : ~InSection(j))
            => file_offset
                 = <<"offset", sections[i].raw_offset + (rva - sections[i].virtual_address)>>

C7_OutsideEverySectionIsNone ==
    applied => ((\A i \in 1..Len(sections) : ~InSection(i)) <=> file_offset = None)

----------------------------------------------------------------------------
(* PEResourceExtractor._parse_resource_directory and the two levels below it *)

RT_RCDATA == 10
IMAGE_RESOURCE_DIRECTORY_SIZE == 16
IMAGE_RESOURCE_DIRECTORY_ENTRY_SIZE == 8
DATA_ENTRY_SIZE == 16

\* the slice data[off:off+k] is shorter than k bytes: struct.unpack raises on it
Short(data, off, k) == off + k > Len(data)

\* struct.unpack('<H', data[off:off+2])
U16(data, off) == data[off + 1] + 256 * data[off + 2]

\* struct.unpack('<I', data[off:off+4]): `dir` is the value's bit 0x80000000 and
\* `low` is the value & 0x7FFFFFFF
U32(data, off) ==
    [dir |-> data[off + 4] >= 128,
     low |-> data[off + 1] + 256 * data[off + 2] + 65536 * data[off + 3]
               + 16777216 * (data[off + 4] % 128)]

\* what a function of the walker returns: its list, and whether an except clause ran
Walked(pairs, lg) == [pairs |-> pairs, logged |-> lg]

\* lines 243-248 (207-212): entry_rva taken as the offset of a 16-byte data entry
RECURSIVE LanguageEntries(_, _, _, _)
LanguageEntries(data, entry_offset, n, acc) ==
    IF n = 0 THEN Walked(acc, FALSE)
    ELSE IF entry_offset + IMAGE_RESOURCE_DIRECTORY_ENTRY_SIZE > Len(data)
    THEN Walked(acc, FALSE)
    ELSE IF Short(data, entry_offset + 4, 4) THEN Walked(acc, TRUE)
    ELSE LET entry_rva == U32(data, entry_offset + 4)
             next == entry_offset + IMAGE_RESOURCE_DIRECTORY_ENTRY_SIZE
         IN  IF ~entry_rva.dir /\ entry_rva.low + DATA_ENTRY_SIZE <= Len(data)
             THEN IF Short(data, entry_rva.low, 8) THEN Walked(acc, TRUE)
                  ELSE LanguageEntries(data, next, n - 1,
                           Append(acc, [data_rva |-> U32(data, entry_rva.low),
                                        data_size |-> U32(data, entry_rva.low + 4)]))
             ELSE LanguageEntries(data, next, n - 1, acc)

\* lines 243-248 with the directory bit masked off, as the level above does
RECURSIVE LanguageEntriesMasked(_, _, _, _)
LanguageEntriesMasked(data, entry_offset, n, acc) ==
    IF n = 0 THEN Walked(acc, FALSE)
    ELSE IF entry_offset + IMAGE_RESOURCE_DIRECTORY_ENTRY_SIZE > Len(data)
    THEN Walked(acc, FALSE)
    ELSE IF Short(data, entry_offset + 4, 4) THEN Walked(acc, TRUE)
    ELSE LET entry_rva == U32(data, entry_offset + 4)
             next == entry_offset + IMAGE_RESOURCE_DIRECTORY_ENTRY_SIZE
         IN  IF entry_rva.low + DATA_ENTRY_SIZE <= Len(data)
             THEN LanguageEntriesMasked(data, next, n - 1,
                      Append(acc, [data_rva |-> U32(data, entry_rva.low),
                                   data_size |-> U32(data, entry_rva.low + 4)]))
             ELSE LanguageEntriesMasked(data, next, n - 1, acc)

parse_language_directory_masked(data, dir_offset) ==
    IF dir_offset + IMAGE_RESOURCE_DIRECTORY_SIZE > Len(data) THEN Walked(<<>>, FALSE)
    ELSE LanguageEntriesMasked(data, dir_offset + IMAGE_RESOURCE_DIRECTORY_SIZE,
                               U16(data, dir_offset + 12) + U16(data, dir_offset + 14), <<>>)

parse_language_directory(data, dir_offset) ==
    IF dir_offset + IMAGE_RESOURCE_DIRECTORY_SIZE > Len(data) THEN Walked(<<>>, FALSE)
    ELSE IF Short(data, dir_offset + 12, 4) THEN Walked(<<>>, TRUE)
    ELSE LanguageEntries(data, dir_offset + IMAGE_RESOURCE_DIRECTORY_SIZE,
                         U16(data, dir_offset + 12) + U16(data, dir_offset + 14), <<>>)

\* lines 194-214: an entry with the high bit leads to a language directory
RECURSIVE SubEntries(_, _, _, _, _)
SubEntries(data, entry_offset, n, acc, lg) ==
    IF n = 0 THEN Walked(acc, lg)
    ELSE IF entry_offset + IMAGE_RESOURCE_DIRECTORY_ENTRY_SIZE > Len(data)
    THEN Walked(acc, lg)
    ELSE IF Short(data, entry_offset + 4, 4) THEN Walked(acc, TRUE)
    ELSE LET entry_rva == U32(data, entry_offset + 4)
             next == entry_offset + IMAGE_RESOURCE_DIRECTORY_ENTRY_SIZE
             lang == parse_language_directory(data, entry_rva.low)
         IN  IF entry_rva.dir
             THEN SubEntries(data, next, n - 1, acc \o lang.pairs,
                             IF lang.logged THEN TRUE ELSE lg)
             ELSE IF entry_rva.low + DATA_ENTRY_SIZE <= Len(data)
             THEN IF Short(data, entry_rva.low, 8) THEN Walked(acc, TRUE)
                  ELSE SubEntries(data, next, n - 1,
                           Append(acc, [data_rva |-> U32(data, entry_rva.low),
                                        data_size |-> U32(data, entry_rva.low + 4)]), lg)
             ELSE SubEntries(data, next, n - 1, acc, lg)

\* the second level read as if it were the last one
parse_sub_directory_as_language(data, dir_offset) == parse_language_directory(data, dir_offset)

parse_sub_directory(data, dir_offset) ==
    IF dir_offset + IMAGE_RESOURCE_DIRECTORY_SIZE > Len(data) THEN Walked(<<>>, FALSE)
    ELSE IF Short(data, dir_offset + 12, 4) THEN Walked(<<>>, TRUE)
    ELSE SubEntries(data, dir_offset + IMAGE_RESOURCE_DIRECTORY_SIZE,
                    U16(data, dir_offset + 12) + U16(data, dir_offset + 14), <<>>, FALSE)

\* lines 157-173: only the entries whose id is RT_RCDATA are followed
RECURSIVE RootEntries(_, _, _, _, _)
RootEntries(data, entry_offset, n, acc, lg) ==
    IF n = 0 THEN Walked(acc, lg)
    ELSE IF entry_offset + IMAGE_RESOURCE_DIRECTORY_ENTRY_SIZE > Len(data)
    THEN Walked(acc, lg)
    ELSE IF Short(data, entry_offset, 8) THEN Walked(acc, TRUE)
    ELSE LET resource_id == U32(data, entry_offset)
             entry_rva == U32(data, entry_offset + 4)
             next == entry_offset + IMAGE_RESOURCE_DIRECTORY_ENTRY_SIZE
             sub == parse_sub_directory(data, entry_rva.low)
         IN  IF ~resource_id.dir /\ resource_id.low = RT_RCDATA /\ entry_rva.dir
             THEN RootEntries(data, next, n - 1, acc \o sub.pairs,
                              IF sub.logged THEN TRUE ELSE lg)
             ELSE RootEntries(data, next, n - 1, acc, lg)

parse_resource_directory(data) ==
    IF Len(data) < IMAGE_RESOURCE_DIRECTORY_SIZE THEN Walked(<<>>, FALSE)
    ELSE IF Short(data, 12, 4) THEN Walked(<<>>, TRUE)
    ELSE RootEntries(data, IMAGE_RESOURCE_DIRECTORY_SIZE,
                     U16(data, 12) + U16(data, 14), <<>>, FALSE)

RS_Parse ==
    /\ ~applied
    /\ applied' = TRUE
    /\ LET w == parse_resource_directory(rsrc_data)
       IN  resources' = w.pairs /\ logged' = w.logged
    /\ UNCHANGED <<tree, cut, rsrc_data, rvaVars, likelyVars, poolVars, moreVars>>
    /\ UNCHANGED <<memVars, waitVars, extVars, callVars>>


\* ---- well-formed three-level trees, as a resource compiler lays them out

LE16(n) == <<n % 256, n \div 256>>
LE32(n) == <<n % 256, (n \div 256) % 256, (n \div 65536) % 256, n \div 16777216>>
\* an offset with the directory bit 0x80000000
LE32Dir(n) == <<n % 256, (n \div 256) % 256, (n \div 65536) % 256, n \div 16777216 + 128>>

\* IMAGE_RESOURCE_DIRECTORY: characteristics, time stamp, version, the two counts
DirHeader(names, ids) == <<0,0,0,0, 0,0,0,0, 0,0,0,0>> \o LE16(names) \o LE16(ids)

\* the parts that follow the root directory and its one entry, in the file's order
Layouts ==
    {<<"name", "lang", "data">>, <<"name", "data", "lang">>, <<"lang", "name", "data">>,
     <<"lang", "data", "name">>, <<"data", "name", "lang">>, <<"data", "lang", "name">>}

PartSize(part) ==
    IF part = "data" THEN DATA_ENTRY_SIZE
    ELSE IMAGE_RESOURCE_DIRECTORY_SIZE + IMAGE_RESOURCE_DIRECTORY_ENTRY_SIZE

RootSize == IMAGE_RESOURCE_DIRECTORY_SIZE + IMAGE_RESOURCE_DIRECTORY_ENTRY_SIZE

RECURSIVE OffsetIn(_, _, _)
OffsetIn(layout, part, i) ==
    IF layout[i] = part THEN 0 ELSE PartSize(layout[i]) + OffsetIn(layout, part, i + 1)

PartOffset(t, part) == RootSize + OffsetIn(t.layout, part, 1)

TreeSize == RootSize + PartSize("name") + PartSize("lang") + PartSize("data")

PartBytes(t, part) ==
    CASE part = "name" ->
            (IF t.named THEN DirHeader(1, 0) \o LE32Dir(TreeSize)
                        ELSE DirHeader(0, 1) \o LE32(1))
            \o LE32Dir(PartOffset(t, "lang"))
      [] part = "lang" -> DirHeader(0, 1) \o LE32(1033) \o LE32(PartOffset(t, "data"))
      [] part = "data" -> LE32(t.data_rva) \o LE32(t.data_size) \o LE32(0) \o LE32(0)

\* one RCDATA type entry, one name entry, one language entry, one data entry
TreeBytes(t) ==
    DirHeader(0, 1) \o LE32(RT_RCDATA) \o LE32Dir(PartOffset(t, "name"))
    \o PartBytes(t, t.layout[1]) \o PartBytes(t, t.layout[2]) \o PartBytes(t, t.layout[3])

Trees ==
    [layout : Layouts, named : BOOLEAN, data_rva : {136, 4184}, data_size : {0, 300}]

\* _parse_resource_directory called on the first `cut` bytes of a well-formed tree
InitRsrc ==
    /\ ProcIdle
    /\ MoreIdle
    /\ applied = FALSE
    /\ RvaIdle
    /\ tree \in Trees
    /\ cut \in 0..TreeSize
    /\ rsrc_data = SubSeq(TreeBytes(tree), 1, cut)
    /\ resources = <<>>
    /\ logged = FALSE
    /\ LikelyIdle
    /\ PoolIdle

NextRsrc == RS_Parse

SpecRsrc == InitRsrc /\ [][NextRsrc]_vars

\* the cut falls inside the second-level (name) directory
CutInsideNameDirectory ==
    /\ PartOffset(tree, "name") <= cut
    /\ cut < PartOffset(tree, "name") + PartSize("name")

\* C8: on the whole tree the walker returns exactly the one (data_rva, data_size)
\* pair; on the tree truncated anywhere inside the second-level subdirectory it
\* returns no pair and no exception is raised (no except clause runs).
C8_OnePairOrNoneWhenTruncated ==
    applied =>
        /\ cut = TreeSize
           => resources = <<[data_rva |-> [dir |-> FALSE, low |-> tree.data_rva],
                             data_size |-> [dir |-> FALSE, low |-> tree.data_size]]>>
        /\ CutInsideNameDirectory => (resources = <<>> /\ ~logged)

\* the name directory's header survives the cut, its entry does not
C8_Witness ==
    /\ applied /\ CutInsideNameDirectory
    /\ cut >= PartOffset(tree, "name") + IMAGE_RESOURCE_DIRECTORY_SIZE
    /\ tree.layout = <<"data", "lang", "name">>
    /\ resources = <<>> /\ ~logged

\* Every cut short of the whole tree loses the pair, and nothing is ever logged.
C8_AnyTruncationGivesNoPair ==
    applied => ((cut < TreeSize => resources = <<>>) /\ ~logged)

----------------------------------------------------------------------------
(* _is_likely_ahk_script *)

MaxTokens == 3        \* texts of 1..MaxTokens tokens

\* the regular expressions of ahk_indicators, by shape:
\*   literal  the word;  command  the word, \s*, then one of , (
\*   hotkey   ::[^:]+::
\*   assign   ^\s*[a-zA-Z_][a-zA-Z0-9_]*\s*:=
Indicator(k, l) == [kind |-> k, lit |-> l]

ahk_indicators == <<
    Indicator("literal", <<35,78,111,69,110,118>>),                    \* r'#NoEnv'
    Indicator("literal", <<35,83,105,110,103,108,101,73,110,115,116,97,110,99,101>>),
                                                                       \* r'#SingleInstance'
    Indicator("literal", <<35,73,110,99,108,117,100,101>>),            \* r'#Include'
    Indicator("command", <<83,101,110,100,73,110,112,117,116>>),       \* r'SendInput\s*[,\(]'
    Indicator("command", <<87,105,110,65,99,116,105,118,97,116,101>>), \* r'WinActivate\s*[,\(]'
    Indicator("command", <<83,108,101,101,112>>),                      \* r'Sleep\s*[,\(]'
    Indicator("command", <<67,111,110,116,114,111,108,67,108,105,99,107>>),
                                                                       \* r'ControlClick\s*[,\(]'
    Indicator("command", <<87,105,110,87,97,105,116>>),                \* r'WinWait\s*[,\(]'
    Indicator("command", <<73,102,87,105,110,69,120,105,115,116>>),    \* r'IfWinExist\s*[,\(]'
    Indicator("command", <<76,111,111,112>>),                          \* r'Loop\s*[,\(]'
    Indicator("command", <<72,111,116,107,101,121>>),                  \* r'Hotkey\s*[,\(]'
    Indicator("hotkey", <<58,58>>),                                    \* r'::[^:]+::'
    Indicator("assign", <<58,61>>),                \* r'^\s*[a-zA-Z_][a-zA-Z0-9_]*\s*:='
    Indicator("command", <<82,117,110>>),                              \* r'Run\s*[,\(]'
    Indicator("command", <<77,111,117,115,101,67,108,105,99,107>>),    \* r'MouseClick\s*[,\(]'
    Indicator("command", <<83,101,116,75,101,121,68,101,108,97,121>>) >>
                                                                       \* r'SetKeyDelay\s*[,\(]'

\* the character at 0-based position i, -1 past the end
CharAt(t, i) == IF i >= 0 /\ i < Len(t) THEN t[i + 1] ELSE -1

\* the literal at position i, ignoring case
LitAt(t, lit, i) ==
    /\ i + Len(lit) <= Len(t)
    /\ \A k \in 1..Len(lit) : Lower(t[i + k]) = Lower(lit[k])

IsWordStart(c) == (c >= 97 /\ c <= 122) \/ (c >= 65 /\ c <= 90) \/ c = 95
IsWordChar(c) == IsWordStart(c) \/ (c >= 48 /\ c <= 57)

\* where \s* stops when it starts at position i
RECURSIVE SkipSpaces(_, _)
SkipSpaces(t, i) == IF IsSpace(CharAt(t, i)) THEN SkipSpaces(t, i + 1) ELSE i

\* where [a-zA-Z0-9_]* stops
RECURSIVE SkipWord(_, _)
SkipWord(t, i) == IF IsWordChar(CharAt(t, i)) THEN SkipWord(t, i + 1) ELSE i

\* where [^:]* stops
RECURSIVE SkipNonColon(_, _)
SkipNonColon(t, i) ==
    IF i < Len(t) /\ CharAt(t, i) # 58 THEN SkipNonColon(t, i + 1) ELSE i

\* the positions ^ matches at under re.MULTILINE
LineStarts(t) == {0} \cup {i \in 1..Len(t) : t[i] = 10}

\* re.search(pattern, text, re.IGNORECASE | re.MULTILINE) finds a match
Search(t, ind) ==
    CASE ind.kind = "literal" -> \E i \in 0..Len(t) : LitAt(t, ind.lit, i)
      [] ind.kind = "command" ->
            \E i \in 0..Len(t) :
                /\ LitAt(t, ind.lit, i)
                /\ CharAt(t, SkipSpaces(t, i + Len(ind.lit))) \in {44, 40}
      [] ind.kind = "hotkey" ->
            \E i \in 0..Len(t) :
                /\ LitAt(t, ind.lit, i)
                /\ LET j == SkipNonColon(t, i + 2)
                   IN  j > i + 2 /\ LitAt(t, ind.lit, j)
      [] ind.kind = "assign" ->
            \E p \in LineStarts(t) :
                LET a == SkipSpaces(t, p)
                    b == SkipWord(t, a + 1)
                    c == SkipSpaces(t, b)
                IN  IsWordStart(CharAt(t, a)) /\ LitAt(t, ind.lit, c)

\* matches: the number of indicators found
Matches(t) == Cardinality({k \in 1..Len(ahk_indicators) : Search(t, ahk_indicators[k])})

is_likely_ahk_script(t) == IF Len(t) < 20 THEN FALSE ELSE Matches(t) >= 2

\* the pieces the texts are made of
Tokens == <<
    <<35,78,111,69,110,118>>,                                          \* '#NoEnv'
    <<58,58>>,                                                         \* '::'
    <<83,108,101,101,112,44>>,                                         \* 'Sleep,'
    <<10>>,                                                            \* '\n'
    <<120,58,61,49>>,                                                  \* 'x:=1'
    <<77,115,103,66,111,120,32,104,101,108,108,111,32,119,111,114,108,100,33,33>>,
                                                                       \* 'MsgBox hello world!!'
    <<82,117,110,32,40>>,                                              \* 'Run ('
    <<58>> >>                                                          \* ':'

RECURSIVE Texts(_)
Texts(n) ==
    IF n = 0 THEN {<<>>}
    ELSE LET shorter == Texts(n - 1)
         IN  shorter \cup {x \o Tokens[k] : x \in shorter, k \in 1..Len(Tokens)}

LK_Check ==
    /\ ~applied
    /\ applied' = TRUE
    /\ likely' = is_likely_ahk_script(text)
    /\ UNCHANGED <<text, rvaVars, rsrcVars, poolVars, moreVars>>
    /\ UNCHANGED <<memVars, waitVars, extVars, callVars>>

InitLikely ==
    /\ ProcIdle
    /\ MoreIdle
    /\ applied = FALSE
    /\ RvaIdle
    /\ RsrcIdle
    /\ text \in Texts(MaxTokens)
    /\ likely = FALSE
    /\ PoolIdle

NextLikely == LK_Check

SpecLikely == InitLikely /\ [][NextLikely]_vars

Directives == {ahk_indicators[k].lit : k \in 1..3}

\* C9: a text in which only one indicator matches is rejected; a text of at least
\* 20 characters that holds the hotkey token '::' and one directive is accepted.
C9_RejectsOneAcceptsHotkeyPlusDirective ==
    applied =>
        /\ Matches(text) = 1 => ~likely
        /\ (/\ Len(text) >= 20
            /\ Contains(text, SCRIPT_MINIMUM_HEURISTIC)
            /\ \E d \in Directives : \E i \in 0..Len(text) : LitAt(text, d, i))
           => likely

\* What the code does: fewer than two indicators, or fewer than 20 characters, reject.
C9_RejectsBelowTwoIndicators ==
    applied => (likely <=> (Len(text) >= 20 /\ Matches(text) >= 2))

\* One '::' is no indicator: the hotkey indicator needs two of them with
\* something other than ':' in between.
C9_OneHotkeyTokenIsNoIndicator ==
    applied =>
        (Len(FindIter(text, SCRIPT_MINIMUM_HEURISTIC, 0)) = 1
            => ~Search(text, ahk_indicators[12]))

----------------------------------------------------------------------------
(* DumpGUI._extract_from_all_processes: the pool of process_single_pid tasks *)

MaxPids == 3          \* 1..MaxPids active processes
MaxWorkerCap == 2     \* MAX_WORKER_THREADS is one of 1..MaxWorkerCap
MaxScripts == 1       \* a task reports 0..MaxScripts scripts

Tasks == 1..Len(active_pids)
InState(st) == {p \in Tasks : task[p] = st}

\* executor.submit(process_single_pid, pid, pid == main_pid), one pid after the other
Pool_Submit ==
    /\ x_pc = "submit"
    /\ LET p == Min(InState("new"))
       IN  /\ task' = [task EXCEPT ![p] = "queued"]
           /\ x_pc' = IF InState("new") = {p} THEN "collect" ELSE "submit"
    /\ UNCHANGED <<active_pids, max_workers, result, stop_monitoring, yielded,
                   total_scripts, completed, started_after_stop>>
    /\ UNCHANGED <<applied, rvaVars, rsrcVars, likelyVars, moreVars>>
    /\ UNCHANGED <<memVars, waitVars, extVars, callVars>>

\* a worker thread takes the oldest queued work item and calls process_single_pid
Worker_Start ==
    /\ InState("queued") # {}
    /\ Cardinality(InState("running")) < max_workers
    /\ LET p == Min(InState("queued"))
       IN  /\ task' = [task EXCEPT ![p] = "running"]
           /\ started_after_stop' =
                 IF stop_monitoring THEN started_after_stop \cup {p} ELSE started_after_stop
    /\ UNCHANGED <<x_pc, active_pids, max_workers, result, stop_monitoring, yielded,
                   total_scripts, completed>>
    /\ UNCHANGED <<applied, rvaVars, rsrcVars, likelyVars, moreVars>>
    /\ UNCHANGED <<memVars, waitVars, extVars, callVars>>

\* process_single_pid returns its result
Worker_Finish ==
    /\ \E p \in InState("running") : \E n \in 0..MaxScripts :
           /\ task' = [task EXCEPT ![p] = "done"]
           /\ result' = [result EXCEPT ![p] = n]
    /\ UNCHANGED <<x_pc, active_pids, max_workers, stop_monitoring, yielded,
                   total_scripts, completed, started_after_stop>>
    /\ UNCHANGED <<applied, rvaVars, rsrcVars, likelyVars, moreVars>>
    /\ UNCHANGED <<memVars, waitVars, extVars, callVars>>

\* one turn of `for future in as_completed(future_to_pid)`: lines 611-631
Pool_Collect ==
    /\ x_pc = "collect"
    /\ \E p \in InState("done") \ yielded :
           IF stop_monitoring
           THEN /\ x_pc' = "shutdown"
                /\ UNCHANGED <<yielded, total_scripts, completed>>
           ELSE /\ yielded' = yielded \cup {p}
                /\ total_scripts' = total_scripts + result[p]
                /\ completed' = completed + 1
                /\ x_pc' = IF yielded \cup {p} = Tasks THEN "shutdown" ELSE "collect"
    /\ UNCHANGED <<active_pids, max_workers, task, result, stop_monitoring,
                   started_after_stop>>
    /\ UNCHANGED <<applied, rvaVars, rsrcVars, likelyVars, moreVars>>
    /\ UNCHANGED <<memVars, waitVars, extVars, callVars>>

\* the end of the with block: executor.shutdown(wait=True) returns once every
\* submitted task has run; line 633
Pool_Shutdown ==
    /\ x_pc = "shutdown"
    /\ InState("done") = Tasks
    /\ x_pc' = "returned"
    /\ UNCHANGED <<active_pids, max_workers, task, result, stop_monitoring, yielded,
                   total_scripts, completed, started_after_stop>>
    /\ UNCHANGED <<applied, rvaVars, rsrcVars, likelyVars, moreVars>>
    /\ UNCHANGED <<memVars, waitVars, extVars, callVars>>

\* the Stop button: stop_extraction
Stop_Extraction ==
    /\ x_pc \in {"submit", "collect", "shutdown"}
    /\ ~stop_monitoring
    /\ stop_monitoring' = TRUE
    /\ UNCHANGED <<x_pc, active_pids, max_workers, task, result, yielded,
                   total_scripts, completed, started_after_stop>>
    /\ UNCHANGED <<applied, rvaVars, rsrcVars, likelyVars, moreVars>>
    /\ UNCHANGED <<memVars, waitVars, extVars, callVars>>

\* _extract_from_all_processes entered with the flag clear (line 499) and at least
\* one active pid (line 592); the pids are 101, 102, ...
InitPool ==
    /\ ProcIdle
    /\ MoreIdle
    /\ applied = FALSE /\ RvaIdle /\ RsrcIdle /\ LikelyIdle
    /\ x_pc = "submit"
    /\ active_pids \in {[i \in 1..n |-> 100 + i] : n \in 1..MaxPids}
    /\ max_workers \in {Min({Len(active_pids), c}) : c \in 1..MaxWorkerCap}
    /\ task = [p \in 1..Len(active_pids) |-> "new"]
    /\ result = [p \in 1..Len(active_pids) |-> 0]
    /\ stop_monitoring = FALSE
    /\ yielded = {}
    /\ total_scripts = 0 /\ completed = 0
    /\ started_after_stop = {}

NextPool ==
    \/ Pool_Submit \/ Worker_Start \/ Worker_Finish \/ Pool_Collect \/ Pool_Shutdown
    \/ Stop_Extraction

SpecPool == InitPool /\ [][NextPool]_vars

\* C10: once the stop flag is set, no process_single_pid task that has not yet
\* started is started, for any number of processes; running tasks may finish.
C10_NoTaskStartsAfterStop == started_after_stop = {}

\* What the code does: with the flag set the loop adds no further result, and the
\* function still returns only after every submitted task has run.
C10_NoResultCollectedAfterStop ==
    [][stop_monitoring => total_scripts' = total_scripts /\ completed' = completed]_vars

C10_ReturnsAfterEveryTaskRan == x_pc = "returned" => InState("done") = Tasks


----------------------------------------------------------------------------
(* The unpack detector, SignatureSeen: C19, C20 *)

\* wait_for_unpack of core/memory.py returned True without the primary marker
ReturnedOnSecondary ==
    impl = "core" /\ w_pc = "done" /\ w_ret = "true" /\ w_why \in {"secondary", "timeout"}

\* C19: when the first secondary signature is first observed at time s after the
\* wait began, the detector does not return True on the strength of secondary
\* signatures before time s + 5 seconds.
C19_NoConfirmBefore5sAfterSeen ==
    ReturnedOnSecondary => w_retTime >= seenAt + 5

\* What the code does: the 5 seconds are counted from the start of the wait, and
\* taken when the poll began.
C19_DelayCountedFromWaitStart ==
    (impl = "core" /\ w_pc = "done" /\ w_why = "secondary") => current_time - t0 >= 5

\* the wait ran out of time
TimedOut == w_pc = "done" /\ w_why = "timeout"

----------------------------------------------------------------------------
(* Process handles: C15 *)

\* extract_scripts has left, by return or by an exception
ExtractLeft == e_pc \in {"done", "raised"}

\* C15: every process handle opened by wait_for_unpack or extract_scripts is
\* closed exactly once before the function returns, on every exit path: normal
\* completion, early return, and an exception raised while scanning or writing.
C15_HandleClosedOnEveryExit ==
    /\ (ExtractLeft /\ e_hproc # "none") => e_hproc = "closed"
    /\ (w_pc = "done" /\ w_hproc # "none") => w_hproc = "closed"

\* What the code does: extract_scripts of core/extractor.py closes its handle in
\* its finally clause, and so does wait_for_unpack in both files; extract_scripts
\* of main.py closes it only when the loop ends without an exception.
C15_CoreExtractClosesHandle ==
    (impl = "core" /\ ExtractLeft /\ e_hproc # "none") => e_hproc = "closed"

C15_WaitClosesHandle ==
    (w_pc = "done" /\ w_hproc # "none") => w_hproc = "closed"

C15_LegacyExtractLeaksOnlyOnException ==
    (impl = "legacy" /\ ExtractLeft /\ e_hproc = "open") <=> e_pc = "raised"

----------------------------------------------------------------------------
(* enum_memory over the answers of VirtualQueryEx: C16 *)

MaxRegionSize == 2     \* a query reports a size of 0..MaxRegionSize
MaxYields == 5         \* one pass is followed for MaxYields regions

\* what one successful query leaves in the buffer, as the generator reads it: base
\* is the queried address (the page it lies in), size is the number held by bytes
\* 24..31.  Those bytes are RegionSize for a 64-bit interpreter; for a 32-bit one,
\* whose structure has 28 bytes, they are the Type field, 0 for a free region.
Answers(a) == {[base |-> a, size |-> sz] : sz \in 0..MaxRegionSize}

\* `while VirtualQueryEx(...)`: the query succeeds; yield; addr += size
EN_Yield ==
    /\ en_pc = "query"
    /\ Len(en_yielded) < MaxYields
    /\ \E mbi \in Answers(en_addr) :
        /\ en_yielded' = Append(en_yielded, mbi)
        /\ en_addr' = en_addr + mbi.size
    /\ UNCHANGED en_pc
    /\ UNCHANGED <<NotMore, peVars, fileVars, runVars, gateVars>>

\* the query fails: the generator is exhausted
EN_Fail ==
    /\ en_pc = "query"
    /\ en_pc' = "done"
    /\ UNCHANGED <<en_addr, en_yielded>>
    /\ UNCHANGED <<NotMore, peVars, fileVars, runVars, gateVars>>

InitEnum ==
    /\ en_pc = "query" /\ en_addr = 0 /\ en_yielded = <<>>
    /\ ProcIdle
    /\ FirstToolsIdle
    /\ PeIdle
    /\ FilesIdle
    /\ RunIdle
    /\ GateIdle

NextEnum == EN_Yield \/ EN_Fail

SpecEnum == InitEnum /\ [][NextEnum]_vars

\* C16: within one enumeration pass, for every sequence of query answers, the base
\* of each yielded region is strictly greater than the base of the region yielded
\* before it, and the pass ends when the query fails.
C16_BasesStrictlyIncrease ==
    \A i \in 2..Len(en_yielded) : en_yielded[i].base > en_yielded[i - 1].base

\* What the code does: the next address is the last one plus the size read, so the
\* bases increase as long as every size read is positive, and a size of 0 makes
\* the same address the next one queried.
C16_BasesIncreaseWhileSizesPositive ==
    (\A i \in 1..Len(en_yielded) : en_yielded[i].size > 0)
    => \A i \in 2..Len(en_yielded) : en_yielded[i].base > en_yielded[i - 1].base

C16_ZeroSizeIsQueriedAgain ==
    \A i \in 2..Len(en_yielded) :
        en_yielded[i - 1].size = 0 => en_yielded[i].base = en_yielded[i - 1].base

C16_EndsOnlyWhenQueryFails ==
    [][en_pc' = "done" /\ en_pc # "done" => EN_Fail]_vars

----------------------------------------------------------------------------
(* PEResourceExtractor: the headers of the file and its RCDATA resources: C18 *)

DOS_HEADER_SIZE == 64
SECTION_HEADER_SIZE == 40
COFF_HEADER_SIZE == 20
PE_SIGNATURE == <<80, 69, 0, 0>>      \* b'PE\x00\x00'
MZ == <<77, 90>>                      \* b'MZ'
RsrcName == <<46, 114, 115, 114, 99>> \* '.rsrc'
TextName == <<46, 116, 101, 120, 116>> \* '.text'

Zeros(n) == [i \in 1..n |-> 0]

\* section_data[:8].rstrip(b'\x00').decode('ascii', errors='ignore')
RECURSIVE RStripZeros(_)
RStripZeros(b) ==
    IF b # <<>> /\ b[Len(b)] = 0 THEN RStripZeros(SubSeq(b, 1, Len(b) - 1)) ELSE b

AsciiIgnore(b) == SelectSeq(b, LAMBDA c : c < 128)

SectionName(section_data) == AsciiIgnore(RStripZeros(SubSeq(section_data, 1, 8)))

\* what _parse_pe_headers returns and leaves in the object
Parsed(ok, secs, rs) == [ok |-> ok, sections |-> secs, resource_section |-> rs]

\* lines 77-101: the loop over the section table from index i on
RECURSIVE ParseSections(_, _, _, _, _, _)
ParseSections(data, sections_offset, i, num_sections, secs, rs) ==
    IF i = num_sections THEN Parsed(TRUE, secs, rs)
    ELSE LET section_offset == sections_offset + i * SECTION_HEADER_SIZE IN
         IF Len(data) < section_offset + SECTION_HEADER_SIZE
         THEN Parsed(TRUE, secs, rs)       \* break, then return True
         ELSE LET section_data == SubSeq(data, section_offset + 1,
                                         section_offset + SECTION_HEADER_SIZE)
                  section_info ==
                      [name |-> SectionName(section_data),
                       virtual_address |-> U32(section_data, 12).low,
                       virtual_size |-> U32(section_data, 8).low,
                       raw_offset |-> U32(section_data, 20).low,
                       raw_size |-> U32(section_data, 16).low]
              IN  ParseSections(data, sections_offset, i + 1, num_sections,
                                Append(secs, section_info),
                                IF section_info.name = RsrcName THEN <<section_info>> ELSE rs)

\* _parse_pe_headers: every read follows a length test, so no except clause runs
parse_pe_headers(data) ==
    IF Len(data) < DOS_HEADER_SIZE THEN Parsed(FALSE, <<>>, <<>>)
    ELSE IF SubSeq(data, 1, 2) # MZ THEN Parsed(FALSE, <<>>, <<>>)
    ELSE LET pe_offset == U32(data, 60) IN
         IF pe_offset.dir \/ Len(data) < pe_offset.low + 4 THEN Parsed(FALSE, <<>>, <<>>)
         ELSE IF SubSeq(data, pe_offset.low + 1, pe_offset.low + 4) # PE_SIGNATURE
         THEN Parsed(FALSE, <<>>, <<>>)
         ELSE LET coff_offset == pe_offset.low + 4 IN
              IF Len(data) < coff_offset + COFF_HEADER_SIZE THEN Parsed(FALSE, <<>>, <<>>)
              ELSE ParseSections(data,
                                 coff_offset + COFF_HEADER_SIZE + U16(data, coff_offset + 16),
                                 0, U16(data, coff_offset + 2), <<>>, <<>>)

\* lines 130-135: the resources whose data lies inside the file
RECURSIVE ResourceData(_, _, _, _)
ResourceData(data, secs, pairs, i) ==
    IF i > Len(pairs) THEN <<>>
    ELSE LET off == IF pairs[i].data_rva.dir THEN None
                    ELSE rva_to_file_offset(secs, pairs[i].data_rva.low, 1)
             size == pairs[i].data_size
             inside == /\ off # None /\ off[2] # 0
                       /\ ~size.dir /\ off[2] + size.low <= Len(data)
         IN  (IF inside THEN <<SubSeq(data, off[2] + 1, off[2] + size.low)>> ELSE <<>>)
             \o ResourceData(data, secs, pairs, i + 1)

\* extract_rcdata_resources
extract_rcdata_resources(data, secs, rs) ==
    IF rs = <<>> THEN <<>>
    ELSE IF Len(data) < rs[1].raw_offset + rs[1].raw_size THEN <<>>
    ELSE LET section_bytes == SubSeq(data, rs[1].raw_offset + 1,
                                     rs[1].raw_offset + rs[1].raw_size)
         IN  ResourceData(data, secs, parse_resource_directory(section_bytes).pairs, 1)

\* load_file: the file is read and its headers parsed
PE_Load ==
    /\ pe_pc = "load"
    /\ LET r == parse_pe_headers(file_data)
       IN  /\ load_ok' = r.ok
           /\ pe_sections' = r.sections
           /\ resource_section' = r.resource_section
           /\ pe_pc' = IF r.ok THEN "extract" ELSE "done"
    /\ UNCHANGED <<pe_image, file_data, pe_resources>>
    /\ UNCHANGED <<NotMore, enumVars, fileVars, runVars, gateVars>>

\* extract_scripts_from_resources, line 288: the file loaded
PE_Extract ==
    /\ pe_pc = "extract"
    /\ pe_resources' = extract_rcdata_resources(file_data, pe_sections, resource_section)
    /\ pe_pc' = "done"
    /\ UNCHANGED <<pe_image, file_data, load_ok, pe_sections, resource_section>>
    /\ UNCHANGED <<NotMore, enumVars, fileVars, runVars, gateVars>>

\* ---- well-formed executables, as a linker lays them out

ScriptBytes == <<97, 58, 58, 98>>       \* b'a::b', the one RCDATA resource

TextVA == 4096
RsrcVA == 8192

\* the one-resource tree of the image, its data right behind the tree
ImageTree(im) ==
    [layout |-> im.layout, named |-> FALSE, data_rva |-> RsrcVA + TreeSize,
     data_size |-> Len(ScriptBytes)]

SectionRaw(im, name) ==
    IF name = RsrcName THEN TreeBytes(ImageTree(im)) \o ScriptBytes ELSE Zeros(8)

\* the names of the image's sections, in the order of the section table
SectionNames(im) ==
    [i \in 1..im.num_sections |->
        IF i = (IF im.rsrc_first THEN 1 ELSE im.num_sections) THEN RsrcName ELSE TextName]

\* where the section table ends
HeadersSize(im) ==
    DOS_HEADER_SIZE + 4 + COFF_HEADER_SIZE + im.optional_header_size
    + im.num_sections * SECTION_HEADER_SIZE

\* where the section table begins
SectionsOffset(im) == DOS_HEADER_SIZE + 4 + COFF_HEADER_SIZE + im.optional_header_size

RECURSIVE RawOffset(_, _)
RawOffset(im, i) ==
    IF i = 1 THEN HeadersSize(im)
    ELSE RawOffset(im, i - 1) + Len(SectionRaw(im, SectionNames(im)[i - 1]))

SectionHeader(im, i) ==
    LET name == SectionNames(im)[i]
        raw == SectionRaw(im, name)
    IN  name \o Zeros(8 - Len(name))
        \o LE32(Len(raw)) \o LE32(IF name = RsrcName THEN RsrcVA ELSE TextVA)
        \o LE32(Len(raw)) \o LE32(RawOffset(im, i)) \o Zeros(16)

RECURSIVE Concat(_, _)
Concat(f, n) == IF n = 0 THEN <<>> ELSE Concat(f, n - 1) \o f[n]

ImageBytes(im) ==
    MZ \o Zeros(58) \o LE32(DOS_HEADER_SIZE)
    \o PE_SIGNATURE
    \o LE16(332) \o LE16(im.num_sections) \o Zeros(12) \o LE16(im.optional_header_size)
    \o LE16(258)
    \o Zeros(im.optional_header_size)
    \o Concat([i \in 1..im.num_sections |-> SectionHeader(im, i)], im.num_sections)
    \o Concat([i \in 1..im.num_sections |-> SectionRaw(im, SectionNames(im)[i])],
              im.num_sections)

PeImages ==
    [layout : {<<"name", "lang", "data">>}, num_sections : 1..MaxSections,
     rsrc_first : BOOLEAN, optional_header_size : {0, 8}]

\* load_file on the first bytes of a well-formed executable, any number of them
InitPe ==
    /\ pe_image \in PeImages
    /\ \E n \in 0..Len(ImageBytes(pe_image)) : file_data = SubSeq(ImageBytes(pe_image), 1, n)
    /\ pe_pc = "load" /\ load_ok = FALSE /\ pe_sections = <<>> /\ resource_section = <<>>
    /\ pe_resources = <<>>
    /\ ProcIdle
    /\ FirstToolsIdle
    /\ EnumIdle
    /\ FilesIdle
    /\ RunIdle
    /\ GateIdle

NextPe == PE_Load \/ PE_Extract

SpecPe == InitPe /\ [][NextPe]_vars

\* the file ends before the end of its section table
TruncatedHeaders == Len(file_data) < HeadersSize(pe_image)

\* C18: if any header or section-header read would fall outside the buffer (the
\* file truncated at any offset, the middle of the section table included), the
\* parser raises nothing, reports the file as not a valid PE, and the extraction
\* yields no resources.
C18_TruncatedHeadersAreInvalid ==
    (pe_pc = "done" /\ TruncatedHeaders) => (~load_ok /\ pe_resources = <<>>)

\* What the code does: a file that ends before the end of its COFF header is
\* reported invalid; one that ends later, inside the optional header or the section
\* table, is reported valid with the sections read so far; in both cases no
\* resource is returned, and the whole file gives its one resource.
C18_InvalidOnlyBeforeSectionTable ==
    pe_pc = "done" =>
        (load_ok <=> Len(file_data) >= DOS_HEADER_SIZE + 4 + COFF_HEADER_SIZE)

C18_TruncatedTableKeepsWholeHeaders ==
    (pe_pc = "done" /\ load_ok) =>
        Len(pe_sections) =
            Min({pe_image.num_sections} \cup
                {k \in 0..pe_image.num_sections :
                    Len(file_data) < SectionsOffset(pe_image) + (k + 1) * SECTION_HEADER_SIZE})

C18_TruncatedHeadersYieldNoResources ==
    (pe_pc = "done" /\ TruncatedHeaders) => pe_resources = <<>>

C18_WholeFileYieldsItsResource ==
    (pe_pc = "done" /\ file_data = ImageBytes(pe_image)) => pe_resources = <<ScriptBytes>>

----------------------------------------------------------------------------
(* The file names of one run, under concurrent workers: C14 *)

MaxCounted == 3        \* the run is followed until its calls have counted MaxCounted candidates

\* active_pids: get_active_pids builds the list from a set, so no pid is listed
\* twice; the primary is pid 1, the others are two children
main_pid == 1
Pids == {main_pid, 2, 3}

\* the candidates a step may still accept: a retry pass starts from a count of 0,
\* so the counts of the workers add up to the candidates counted so far
Room == MaxCounted - (f_scripts[1] + f_scripts[2] + f_scripts[3])

\* the suffix of the names of method k of _extract_subprocess_scripts
MethodTag(k) ==
    IF k = 1 THEN "_subprocess" ELSE IF k = 2 THEN "_subprocess_raw" ELSE "_subprocess_string"

\* the suffixes of the candidates of one blob, in the order the methods accept
\* them: n1 markers by method 1, n2 <= 1 by method 2, n3 <= 2 by method 3
Tags(n1, n2, n3) ==
    [i \in 1..(n1 + n2 + n3) |->
        IF i <= n1 THEN MethodTag(1) ELSE IF i <= n1 + n2 THEN MethodTag(2) ELSE MethodTag(3)]

\* the names of the first k candidates, numbered after `base`
Names(p, base, tags, k) == [i \in 1..k |-> FileNameOf("core", p, base + i, tags[i])]

\* `with open(script_filename, 'w')`, name after name: the names that were there
RECURSIVE Clobbered(_, _, _)
Clobbered(names, i, files) ==
    IF i > Len(names) THEN {}
    ELSE (IF names[i] \in files THEN {names[i]} ELSE {})
         \cup Clobbered(names, i + 1, files \cup {names[i]})

WriteFiles(names) ==
    /\ f_files' = f_files \cup {names[i] : i \in 1..Len(names)}
    /\ f_clobbered' = f_clobbered \cup Clobbered(names, 1, f_files)

\* extract_scripts(pid, ...) is entered: scripts = 0, and the regions it will see
CallExtract(p, again) ==
    /\ f_pc' = [f_pc EXCEPT ![p] = "scan"]
    /\ f_retry' = [f_retry EXCEPT ![p] = again]
    /\ f_scripts' = [f_scripts EXCEPT ![p] = 0]
    /\ \E n \in 0..MaxRegions : f_left' = [f_left EXCEPT ![p] = n]

\* process_single_pid lines 224-253: the worker takes the task; the process is
\* gone, or extract_scripts is called
F_Start(p) ==
    /\ f_pc[p] = "queued"
    /\ \/ CallExtract(p, FALSE)
       \/ f_pc' = [f_pc EXCEPT ![p] = "done"] /\ UNCHANGED <<f_retry, f_scripts, f_left>>
    /\ UNCHANGED <<f_files, f_clobbered>>
    /\ UNCHANGED <<NotMore, enumVars, peVars, runVars, gateVars>>

\* extract_scripts lines 56-79, the primary's path on one region: n candidates are
\* accepted, each after `scripts += 1`; the write number `fail` raises (0: none)
\* and ends the call at line 82
F_MainRegion(p) ==
    /\ p = main_pid /\ f_pc[p] = "scan" /\ f_left[p] > 0
    /\ \E n \in 0..Room : \E fail \in 0..n :
        LET counted == IF fail = 0 THEN n ELSE fail
            stored == IF fail = 0 THEN n ELSE fail - 1
        IN  /\ WriteFiles(Names(p, f_scripts[p], [i \in 1..n |-> ""], stored))
            /\ f_scripts' = [f_scripts EXCEPT ![p] = @ + counted]
            /\ f_pc' = [f_pc EXCEPT ![p] = IF fail = 0 THEN "scan" ELSE "done"]
            /\ f_left' = [f_left EXCEPT ![p] = IF fail = 0 THEN @ - 1 ELSE @]
    /\ UNCHANGED f_retry
    /\ UNCHANGED <<NotMore, enumVars, peVars, runVars, gateVars>>

\* extract_scripts line 53 on one region of a child:
\* scripts += _extract_subprocess_scripts(blob, pid, scripts, ...), which numbers
\* its files current_scripts + scripts_found (lines 118-121, 175-178, 193-198); a
\* write that raises is caught at line 200 and ends the blob, counted
F_ChildRegion(p) ==
    /\ p # main_pid /\ f_pc[p] = "scan" /\ f_left[p] > 0
    /\ \E n1 \in 0..Room, n2 \in 0..1, n3 \in 0..2 :
        /\ n1 + n2 + n3 <= Room
        /\ \E fail \in 0..(n1 + n2 + n3) :
            LET counted == IF fail = 0 THEN n1 + n2 + n3 ELSE fail
                stored == IF fail = 0 THEN n1 + n2 + n3 ELSE fail - 1
            IN  /\ WriteFiles(Names(p, f_scripts[p], Tags(n1, n2, n3), stored))
                /\ f_scripts' = [f_scripts EXCEPT ![p] = @ + counted]
    /\ f_left' = [f_left EXCEPT ![p] = @ - 1]
    /\ UNCHANGED <<f_pc, f_retry>>
    /\ UNCHANGED <<NotMore, enumVars, peVars, runVars, gateVars>>

\* extract_scripts returns; process_single_pid lines 262-267: a child without
\* scripts is scanned once more, if it still exists
F_Return(p) ==
    /\ f_pc[p] = "scan" /\ f_left[p] = 0
    /\ IF p # main_pid /\ ~f_retry[p] /\ f_scripts[p] = 0
       THEN \/ CallExtract(p, TRUE)
            \/ f_pc' = [f_pc EXCEPT ![p] = "done"] /\ UNCHANGED <<f_retry, f_scripts, f_left>>
       ELSE f_pc' = [f_pc EXCEPT ![p] = "done"] /\ UNCHANGED <<f_retry, f_scripts, f_left>>
    /\ UNCHANGED <<f_files, f_clobbered>>
    /\ UNCHANGED <<NotMore, enumVars, peVars, runVars, gateVars>>

\* _extract_from_all_processes has submitted one task per active pid
InitFiles ==
    /\ f_pc = [p \in Pids |-> "queued"]
    /\ f_retry = [p \in Pids |-> FALSE]
    /\ f_left = [p \in Pids |-> 0]
    /\ f_scripts = [p \in Pids |-> 0]
    /\ f_files = {} /\ f_clobbered = {}
    /\ ProcIdle
    /\ FirstToolsIdle
    /\ EnumIdle
    /\ PeIdle
    /\ RunIdle
    /\ GateIdle

NextFiles ==
    \E p \in Pids :
        F_Start(p) \/ F_MainRegion(p) \/ F_ChildRegion(p) \/ F_Return(p)

SpecFiles == InitFiles /\ [][NextFiles]_vars

\* C14: within one run, across all concurrent workers, all processes, all
\* extraction methods and the child retry pass, no two accepted candidates are
\* written to the same output file name.
C14_NoFileOverwritten == f_clobbered = {}

\* the primary has written its files and a child its own, the child in its retry
\* pass and by two methods
C14_Witness ==
    /\ \A p \in Pids : f_pc[p] = "done"
    /\ FileNameOf("core", main_pid, 1, "") \in f_files
    /\ \E p \in Pids :
        /\ f_retry[p]
        /\ FileNameOf("core", p, 1, MethodTag(1)) \in f_files
        /\ FileNameOf("core", p, 2, MethodTag(3)) \in f_files

\* The retry pass runs only after a first pass that counted no candidate, so every
\* file of a retried child was written by the retry pass.
C14_RetryOnlyAfterEmptyPass ==
    \A p \in Pids :
        (f_retry[p] /\ p # main_pid) =>
            \A n \in 1..MaxCounted, k \in 1..3 :
                FileNameOf("core", p, n, MethodTag(k)) \in f_files => n <= f_scripts[p]

----------------------------------------------------------------------------
(* One run of the GUI: start_dump, stop_extraction, dump_process and the
   thread of monitor_child_processes (gui/main_window.py, core/monitor.py) *)

ChildWaitCycles == 15     \* wait_cycles = 15
ExtendAfter == 10         \* if i >= 10
ExtendBy == 3             \* wait_cycles + 3
ExtendCap == 25           \* min(..., 25)
OldPid == 9               \* a pid an earlier run left in the set

\* the primary process has at most one child at a time
KidPids == {2}
RunPids == {main_pid} \cup KidPids

\* the targets of this specification: one readable region, packed or unpacked
RunImages == {<<KPacked>>, <<KPrimary>>}

\* the defaults of wait_for_unpack (utils/constants.py), one value each
DEFAULT_UNPACK_TIMEOUT == Max(DefaultTimeouts)
DEFAULT_CHECK_INTERVAL == Min(1..MaxInterval)

\* psutil.pid_exists, get_process_info(pid)['exists']
Exists(p) == IF p = main_pid THEN alive ELSE p \in kids

\* what the steps of a run leave alone
NotRun == <<extVars, callVars, applied, rvaVars, rsrcVars, likelyVars, poolVars, enumVars,
            peVars, fileVars, gateVars>>
TargetImage == <<impl, now, openOK, mem, appearAt, reads>>

\* start_dump, lines 437-451: the flag and the set are cleared, the thread starts
GUI_StartDump ==
    /\ dump.pc = "idle"
    /\ stop_event' = FALSE
    /\ monitored_pids' = {}
    /\ dump' = [dump EXCEPT !.pc = "start"]
    /\ UNCHANGED <<monitor, monitor_children, kids, terminated, stop_first>>
    /\ UNCHANGED <<memVars, waitVars, NotRun>>

\* stop_extraction, lines 418-421; the button is enabled from start_dump to the
\* end of dump_process
GUI_Stop ==
    /\ dump.pc \notin {"idle", "done"}
    /\ ~stop_event
    /\ stop_event' = TRUE
    /\ stop_first' = IF dump.pc = "start" THEN "thread" ELSE stop_first
    /\ UNCHANGED <<dump, monitor, monitored_pids, monitor_children, kids, terminated>>
    /\ UNCHANGED <<memVars, waitVars, NotRun>>

\* dump_process, lines 460-483: Popen, the pid is tracked, the monitor thread starts;
\* Popen raises when the file cannot be run
Run_Popen ==
    /\ dump.pc = "start"
    /\ \/ /\ alive' = TRUE
          /\ monitored_pids' = monitored_pids \cup {main_pid}
          /\ monitor' = IF monitor_children THEN NewMonitor("start") ELSE monitor
          /\ dump' = [dump EXCEPT !.pc = "unpack"]
       \/ /\ dump' = [dump EXCEPT !.pc = "finally", !.error = "OSError"]
          /\ UNCHANGED <<alive, monitored_pids, monitor>>
    /\ UNCHANGED <<stop_event, monitor_children, kids, terminated, stop_first>>
    /\ UNCHANGED <<TargetImage, waitVars, NotRun>>

\* _handle_main_process_unpack, lines 533-538 and 548-550: wait_for_unpack is called
\* with its default timeout and interval when the process exists
Run_HandleUnpack ==
    /\ dump.pc = "unpack"
    /\ IF Exists(main_pid)
       THEN /\ timeout' = DEFAULT_UNPACK_TIMEOUT
            /\ check_interval' = DEFAULT_CHECK_INTERVAL
            /\ w_pc' = "call"
            /\ dump' = [dump EXCEPT !.pc = "wait", !.waited = TRUE]
       ELSE /\ dump' = [dump EXCEPT !.pc = "phase4"]
            /\ UNCHANGED <<timeout, check_interval, w_pc>>
    /\ UNCHANGED <<t0, current_time, signature_found, w_addr, w_hproc, w_ret, w_retTime,
                   polls, w_why, seenAt>>
    /\ UNCHANGED <<memVars, NotRun>>
    /\ UNCHANGED <<monitor, stop_event, monitored_pids, monitor_children, kids, terminated,
                   stop_first>>

\* lines 538-552: wait_for_unpack has returned, and its frame is gone
Run_AfterWait ==
    /\ dump.pc = "wait" /\ w_pc = "done"
    /\ dump' = [dump EXCEPT !.pc = "phase4", !.main_process_unpacked = (w_ret = "true")]
    /\ w_pc' = "idle" /\ timeout' = 0 /\ check_interval' = 0 /\ t0' = 0
    /\ current_time' = 0 /\ signature_found' = FALSE /\ w_addr' = 0 /\ w_hproc' = "none"
    /\ w_ret' = "none" /\ w_retTime' = 0 /\ polls' = 0 /\ w_why' = "none" /\ seenAt' = -1
    /\ UNCHANGED <<monitor, stop_event, monitored_pids, monitor_children, kids, terminated,
                   stop_first>>
    /\ UNCHANGED <<memVars, NotRun>>

\* lines 492-496 and 559-561: phase 4 is entered unless the flag is set
Run_Phase4 ==
    /\ dump.pc = "phase4"
    /\ dump' = IF monitor_children /\ ~stop_event
               THEN [dump EXCEPT !.pc = "cycle", !.i = 0, !.wait_cycles = ChildWaitCycles]
               ELSE [dump EXCEPT !.pc = "phase5"]
    /\ UNCHANGED <<monitor, stop_event, monitored_pids, monitor_children, kids, terminated,
                   stop_first>>
    /\ UNCHANGED <<memVars, waitVars, NotRun>>

\* _wait_for_child_processes, lines 561-572: range(15) was built once; the flag,
\* the first len(), the sleep
Run_CycleBegin ==
    /\ dump.pc = "cycle"
    /\ dump' = IF dump.i >= ChildWaitCycles \/ stop_event
               THEN [dump EXCEPT !.pc = "phase5"]
               ELSE [dump EXCEPT !.pc = "slept",
                                 !.current_count = Cardinality(monitored_pids)]
    /\ UNCHANGED <<monitor, stop_event, monitored_pids, monitor_children, kids, terminated,
                   stop_first>>
    /\ UNCHANGED <<memVars, waitVars, NotRun>>

\* lines 573-580: after the sleep, the second len() and the extension
Run_CycleEnd ==
    /\ dump.pc = "slept"
    /\ dump' = [dump EXCEPT
                  !.pc = "cycle",
                  !.i = dump.i + 1,
                  !.wait_cycles =
                      IF dump.i >= ExtendAfter
                         /\ Cardinality(monitored_pids) > dump.current_count
                      THEN Min({dump.wait_cycles + ExtendBy, ExtendCap})
                      ELSE dump.wait_cycles]
    /\ UNCHANGED <<monitor, stop_event, monitored_pids, monitor_children, kids, terminated,
                   stop_first>>
    /\ UNCHANGED <<memVars, waitVars, NotRun>>

\* iter(monitored_pids) in the comprehension of get_active_pids (monitor.py 122)
Iterate(for) ==
    [dump EXCEPT !.pc = "active", !.it_for = for,
                 !.it_size = Cardinality(monitored_pids), !.it_seen = {},
                 !.active_pids = {}]

\* lines 499-503 and 590: phase 5 is entered unless the flag is set
Run_Phase5 ==
    /\ dump.pc = "phase5"
    /\ dump' = IF ~stop_event
               THEN [Iterate("extract") EXCEPT !.extracted = TRUE]
               ELSE [dump EXCEPT !.pc = "cleanup"]
    /\ UNCHANGED <<monitor, stop_event, monitored_pids, monitor_children, kids, terminated,
                   stop_first>>
    /\ UNCHANGED <<memVars, waitVars, NotRun>>

\* the set has changed size since the iterator was made
SetChanged == Cardinality(monitored_pids) # dump.it_size

\* one next() of the set iterator in get_active_pids (monitor.py 122): RuntimeError
\* "Set changed size during iteration" when the size differs, caught at line 517;
\* else the next pid, kept if pid_exists; else the list is complete (lines 592-594, 637)
Run_ActiveNext ==
    /\ dump.pc = "active"
    /\ IF SetChanged
       THEN dump' = [dump EXCEPT !.pc = "finally", !.error = "RuntimeError"]
       ELSE IF dump.it_seen = monitored_pids
       THEN dump' = [dump EXCEPT !.pc =
                        IF dump.it_for = "results" THEN "finally"
                        ELSE IF dump.active_pids = {} THEN "cleanup" ELSE "pool"]
       ELSE \E p \in monitored_pids \ dump.it_seen :
                dump' = [dump EXCEPT
                           !.it_seen = dump.it_seen \cup {p},
                           !.active_pids = IF Exists(p) THEN dump.active_pids \cup {p}
                                           ELSE dump.active_pids]
    /\ UNCHANGED <<monitor, stop_event, monitored_pids, monitor_children, kids, terminated,
                   stop_first>>
    /\ UNCHANGED <<memVars, waitVars, NotRun>>

\* _extract_from_all_processes, lines 596-633: the pool of process_single_pid tasks.
\* The task of the primary (extractor.py 226-238) waits for the unpack once more, with
\* the default timeout and interval; the tasks of the children report their counts
Run_Pool ==
    /\ dump.pc = "pool"
    /\ IF main_pid \in dump.active_pids /\ Exists(main_pid)
       THEN /\ timeout' = DEFAULT_UNPACK_TIMEOUT
            /\ check_interval' = DEFAULT_CHECK_INTERVAL
            /\ w_pc' = "call"
            /\ dump' = [dump EXCEPT !.pc = "task"]
       ELSE /\ \E n \in 0..(MaxScripts * Cardinality(dump.active_pids \ {main_pid})) :
                   dump' = [dump EXCEPT !.pc = "cleanup", !.total_scripts = n]
            /\ UNCHANGED <<timeout, check_interval, w_pc>>
    /\ UNCHANGED <<t0, current_time, signature_found, w_addr, w_hproc, w_ret, w_retTime,
                   polls, w_why, seenAt>>
    /\ UNCHANGED <<memVars, NotRun>>
    /\ UNCHANGED <<monitor, stop_event, monitored_pids, monitor_children, kids, terminated,
                   stop_first>>

\* extractor.py 240-280 and main_window.py 611-633: the wait of the primary's task
\* has returned; every task reports 0..MaxScripts scripts, and the loop stops adding
\* when the flag is set
Run_TaskWaited ==
    /\ dump.pc = "task" /\ w_pc = "done"
    /\ \E n \in 0..(MaxScripts * Cardinality(dump.active_pids)) :
           dump' = [dump EXCEPT !.pc = "cleanup", !.total_scripts = n]
    /\ w_pc' = "idle" /\ timeout' = 0 /\ check_interval' = 0 /\ t0' = 0
    /\ current_time' = 0 /\ signature_found' = FALSE /\ w_addr' = 0 /\ w_hproc' = "none"
    /\ w_ret' = "none" /\ w_retTime' = 0 /\ polls' = 0 /\ w_why' = "none" /\ seenAt' = -1
    /\ UNCHANGED <<monitor, stop_event, monitored_pids, monitor_children, kids, terminated,
                   stop_first>>
    /\ UNCHANGED <<memVars, NotRun>>

\* lines 505-515: terminate_process_safely(main_pid) (monitor.py 125-142), then
\* _show_final_results and its get_active_pids (line 637)
Run_Cleanup ==
    /\ dump.pc = "cleanup"
    /\ terminated' = terminated \cup {main_pid}
    /\ alive' = FALSE
    /\ dump' = Iterate("results")
    /\ UNCHANGED <<monitor, stop_event, monitored_pids, monitor_children, kids, stop_first>>
    /\ UNCHANGED <<TargetImage, waitVars, NotRun>>

\* lines 522-523: the finally clause sets the flag
Run_Finally ==
    /\ dump.pc = "finally"
    /\ stop_event' = TRUE
    /\ dump' = [dump EXCEPT !.pc = IF monitor.pc = "none" THEN "done" ELSE "join"]
    /\ UNCHANGED <<monitor, monitored_pids, monitor_children, kids, terminated, stop_first>>
    /\ UNCHANGED <<memVars, waitVars, NotRun>>

\* lines 524-529: join(timeout=5) returns when the thread has ended or 5 s have passed
Run_Join ==
    /\ dump.pc = "join"
    /\ dump' = [dump EXCEPT !.pc = "done"]
    /\ UNCHANGED <<monitor, stop_event, monitored_pids, monitor_children, kids, terminated,
                   stop_first>>
    /\ UNCHANGED <<memVars, waitVars, NotRun>>

\* monitor_child_processes, lines 20-24 and 79-82: psutil.Process(parent_pid)
M_Start ==
    /\ monitor.pc = "start"
    /\ monitor' = [monitor EXCEPT !.pc = IF Exists(main_pid) THEN "test" ELSE "ended"]
    /\ UNCHANGED <<dump, stop_event, monitored_pids, monitor_children, kids, terminated,
                   stop_first>>
    /\ UNCHANGED <<memVars, waitVars, NotRun>>

\* lines 26-32 without the subtraction of the known children at line 32
M_Test_EveryChildIsNew ==
    /\ monitor.pc = "test"
    /\ monitor' = IF stop_event \/ ~Exists(main_pid)
                  THEN [monitor EXCEPT !.pc = "ended"]
                  ELSE [monitor EXCEPT !.pc = "scan", !.current_children = kids,
                                       !.todo = kids]
    /\ UNCHANGED <<dump, stop_event, monitored_pids, monitor_children, kids, terminated,
                   stop_first>>
    /\ UNCHANGED <<memVars, waitVars, NotRun>>

\* lines 26-32 and 75-77: the loop test, then the children of the parent
M_Test ==
    /\ monitor.pc = "test"
    /\ monitor' = IF stop_event \/ ~Exists(main_pid)
                  THEN [monitor EXCEPT !.pc = "ended"]
                  ELSE [monitor EXCEPT !.pc = "scan", !.current_children = kids,
                                       !.todo = kids \ monitor.initial_children]
    /\ UNCHANGED <<dump, stop_event, monitored_pids, monitor_children, kids, terminated,
                   stop_first>>
    /\ UNCHANGED <<memVars, waitVars, NotRun>>

\* lines 34-60: one new child; it is tracked when it is an .exe that still exists
\* after the half second
M_Child(c) ==
    /\ monitor.pc = "scan"
    /\ c \in monitor.todo
    /\ monitor' = [monitor EXCEPT !.todo = monitor.todo \ {c}]
    /\ \E is_exe \in BOOLEAN :
           monitored_pids' = IF c \notin monitored_pids /\ is_exe /\ Exists(c)
                             THEN monitored_pids \cup {c} ELSE monitored_pids
    /\ UNCHANGED <<dump, stop_event, monitor_children, kids, terminated, stop_first>>
    /\ UNCHANGED <<memVars, waitVars, NotRun>>

\* lines 62-73: the known children are updated, then the sleep
M_ScanEnd ==
    /\ monitor.pc = "scan"
    /\ monitor.todo = {}
    /\ monitor' = [monitor EXCEPT
                     !.pc = "test",
                     !.initial_children = monitor.initial_children
                                          \cup monitor.current_children,
                     !.current_children = {}]
    /\ UNCHANGED <<dump, stop_event, monitored_pids, monitor_children, kids, terminated,
                   stop_first>>
    /\ UNCHANGED <<memVars, waitVars, NotRun>>

\* the primary process starts a child
Env_Spawn(c) ==
    /\ alive
    /\ dump.pc # "done"
    /\ c \in KidPids \ (kids \cup monitor.initial_children \cup monitor.current_children
                        \cup monitored_pids)
    /\ kids' = kids \cup {c}
    /\ UNCHANGED <<dump, monitor, stop_event, monitored_pids, monitor_children, terminated,
                   stop_first>>
    /\ UNCHANGED <<memVars, waitVars, NotRun>>

\* a process exits by itself
Env_Exit(p) ==
    /\ Exists(p)
    /\ dump.pc # "done"
    /\ IF p = main_pid
       THEN alive' = FALSE /\ UNCHANGED kids
       ELSE kids' = kids \ {p} /\ UNCHANGED alive
    /\ UNCHANGED <<dump, monitor, stop_event, monitored_pids, monitor_children, terminated,
                   stop_first>>
    /\ UNCHANGED <<TargetImage, waitVars, NotRun>>

\* the window is open, a file is chosen; the flag may be left set by an earlier run
InitRun ==
    /\ impl = "core" /\ now = 0 /\ alive = FALSE /\ reads = {}
    /\ openOK \in BOOLEAN
    /\ mem \in RunImages
    /\ appearAt \in {0, MaxAppear}
    /\ WaitIdle
    /\ ExtractIdle
    /\ CallIdle
    /\ FirstToolsIdle
    /\ EnumIdle
    /\ PeIdle
    /\ FilesIdle
    /\ GateIdle
    /\ dump = NewDump("idle")
    /\ monitor = NewMonitor("none")
    /\ stop_event \in BOOLEAN
    /\ stop_first = IF stop_event THEN "start_dump" ELSE "no"
    /\ monitored_pids \in {{}, {OldPid}}
    /\ monitor_children \in BOOLEAN
    /\ kids = {}
    /\ terminated = {}

NextRun ==
    \/ GUI_StartDump \/ GUI_Stop
    \/ Run_Popen \/ Run_HandleUnpack \/ Run_AfterWait \/ Run_Phase4 \/ Run_CycleBegin
    \/ Run_CycleEnd \/ Run_Phase5 \/ Run_ActiveNext \/ Run_Pool \/ Run_TaskWaited \/ Run_Cleanup
    \/ Run_Finally \/ Run_Join
    \/ WU_Enter \/ WU_While \/ WU_Scan \/ WU_Sleep
    \/ M_Start \/ M_Test \/ M_ScanEnd
    \/ \E c \in KidPids : M_Child(c) \/ Env_Spawn(c)
    \/ \E p \in RunPids : Env_Exit(p)

SpecRun == InitRun /\ [][NextRun]_vars

----------------------------------------------------------------------------
(* C11: what a run terminates when it ends *)

RunEnded == dump.pc = "done"

\* C11: whenever a run has ended, by normal completion, by a user stop or by an error
\* raised inside it, terminate_process_safely has been called on every pid that is
\* still in the monitored set: the primary process and every tracked child.
C11_EveryTrackedPidTerminated == RunEnded => monitored_pids \subseteq terminated

\* what the code does: only the primary process is ever terminated
C11_OnlyPrimaryTerminated == terminated \subseteq {main_pid}

\* and it is terminated at the end of every run that raised nothing
C11_PrimaryTerminatedUnlessRaised ==
    (RunEnded /\ dump.error = "none") => main_pid \in terminated

\* a run that raised past line 509 has terminated nothing
C11_NothingTerminatedWhenRaisedEarly ==
    (RunEnded /\ dump.error # "none" /\ dump.it_for # "results") => terminated = {}

\* a run ends normally with a tracked child that nothing terminated
C11_ChildLeftRunning ==
    RunEnded /\ dump.error = "none" /\ (monitored_pids \ {main_pid}) \cap kids # {}

----------------------------------------------------------------------------
(* C12: the stop flag and the two polling loops *)

\* the detector begins another poll
DetectorPollsAgain == w_pc = "while" /\ w_pc' = "scan"

\* the monitor begins another scan of the children
MonitorScansAgain == monitor.pc = "test" /\ monitor'.pc = "scan"

\* C12: once the shared stop flag is set, the child-monitoring loop and the polling loop
\* of the unpack detector see it at their next loop test and leave: neither begins
\* another iteration.
C12_BothLoopsExitOnStop ==
    [][stop_event => (~DetectorPollsAgain /\ ~MonitorScansAgain)]_vars

\* what the code does: the monitor loop tests the flag (monitor.py 26) ...
C12_MonitorLoopExitsOnStop ==
    [][(stop_event /\ monitor.pc = "test") => monitor'.pc \in {"test", "ended"}]_vars

\* ... and wait_for_unpack is never given the flag: with the flag set it ends only
\* as it ends without it, by a confirmation, its timeout, or the death of the process
C12_DetectorEndsOnlyByItsOwnRules ==
    (dump.pc = "wait" /\ w_pc = "done")
        => w_why \in {"confirmed", "secondary", "timeout", "gone", "open_failed"}

\* the detector is polling while the flag is set
C12_PollingWhileStopped == stop_event /\ w_pc = "scan" /\ polls >= 2

----------------------------------------------------------------------------
(* C13: the monitored set under the two threads *)

\* C13: whatever the interleaving of the monitor thread adding a child pid with the
\* main flow reading or iterating the set, no error is raised.
C13_NoErrorFromTheSet == dump.error # "RuntimeError"

\* what the code does: the iteration of get_active_pids raises exactly when the
\* monitor thread added a pid after the iterator was made
C13_RaisesOnlyWhenSetGrew ==
    [][(dump.pc = "active" /\ dump'.error = "RuntimeError")
           => Cardinality(monitored_pids) > dump.it_size]_vars

\* an iteration that ends has seen the whole set, each pid once
C13_CompletedIterationSawTheSet ==
    [][(dump.pc = "active" /\ dump'.pc \in {"pool", "cleanup"})
           => (dump.it_seen = monitored_pids /\ dump.active_pids \subseteq monitored_pids)]_vars

\* len() is one read: the child wait never raises
C13_LenNeverRaises == dump.pc \in {"cycle", "slept"} => dump.error = "none"

\* the extraction was abandoned because the set grew under get_active_pids
C13_ExtractionAbandoned ==
    RunEnded /\ dump.error = "RuntimeError" /\ dump.it_for = "extract"

----------------------------------------------------------------------------
(* C17: a stop flag set before the run does any work *)

\* C17: when the stop flag was already set before dump_process did any work, the run
\* performs no unpack wait and no extraction, ends with zero scripts, and terminates
\* no pid that it was not tracking.
C17_StopFirstDoesNothing ==
    (RunEnded /\ stop_first # "no")
        => /\ ~dump.waited
           /\ ~dump.extracted
           /\ dump.total_scripts = 0
           /\ terminated \subseteq monitored_pids

\* what the code does: a flag set before start_dump is cleared at line 441 ...
C17_StartDumpClearsFlag ==
    [][(dump.pc = "idle" /\ dump'.pc = "start") => ~stop_event']_vars

\* ... and a flag set before the first statement of the thread skips the child wait and
\* the extraction, never the launch or the unpack wait
C17_StopInThreadSkipsPhases4And5 ==
    stop_first = "thread"
        => /\ dump.pc \notin {"cycle", "slept", "pool"}
           /\ ~dump.extracted
           /\ dump.total_scripts = 0
           /\ terminated \subseteq monitored_pids

\* the unpack wait ran to its end in a run stopped before it began
C17_WaitedAlthoughStopped ==
    RunEnded /\ stop_first = "thread" /\ dump.waited /\ ~dump.main_process_unpacked

----------------------------------------------------------------------------
(* C21: what makes Method 2 of the child path try a blob *)

\* the patterns of the list that occur in blob at least once
TokensFound(blob) == {k \in 1..Len(ahk_patterns) : PatFindIter(blob, ahk_patterns[k], 0) # <<>>}

TokensFoundIn == [b \in BlobIds |-> TokensFound(Bytes(b))]
PatternMatchesIn == [b \in BlobIds |-> PatternMatches(Bytes(b), Len(ahk_patterns))]
RawScriptsIn == [b \in BlobIds |-> RawScripts(Bytes(b))]

\* the regions of a child whose Method 2 text was written
RawWritten ==
    IF impl = "core" /\ is_subprocess
    THEN {q \in processed \ raised : RawScriptsIn[mem[q].blob] # <<>>}
    ELSE {}

\* C21: Method 2 of the child path writes a script from a blob only if at least two
\* distinct tokens of its list occur in the blob; a blob holding one token only,
\* however often, yields no Method 2 script.
C21_RawNeedsTwoDistinctTokens ==
    \A q \in RawWritten : Cardinality(TokensFoundIn[mem[q].blob]) >= 2

\* what the code does: pattern_matches adds up the occurrences of all the tokens
C21_RawNeedsTwoOccurrences ==
    \A q \in RawWritten : PatternMatchesIn[mem[q].blob] >= 2

\* a Method 2 script from a blob that holds the token '::' twice and no other
C21_OneTokenTwice ==
    \E q \in RawWritten : Cardinality(TokensFoundIn[mem[q].blob]) = 1

----------------------------------------------------------------------------
(* The heuristic paths: Method 2 of the child path (core/extractor.py) and
   _extract_ahk_from_resource (core/resources.py), applied to one byte string *)

RESOURCE_MIN_SIZE == 100    \* len(resource_data) > 100
CLEANED_MIN_SIZE == 50      \* len(cleaned_text) > 50

\* the k-th smallest element of a set of numbers
Kth(S, k) == CHOOSE i \in S : Cardinality({j \in S : j <= i}) = k

\* the elements of s at the positions of S, in order
Pick(s, S) == [k \in 1..Cardinality(S) |-> s[Kth(S, k)]]

\* str.replace('\x00', '')
DropNul(t) == SelectSeq(t, LAMBDA c : c # 0)

\* bytes.lower()
LowerBytes(b) == [i \in 1..Len(b) |-> Lower(b[i])]

\* bytes.decode('utf-16-le', 'ignore') of bytes below 0xD8: one character for each
\* pair of bytes, an odd last byte dropped
Utf16LeIgnore(b) == [i \in 1..(Len(b) \div 2) |-> b[2 * i - 1] + 256 * b[2 * i]]

\* bytes.decode('latin-1', 'ignore'): each byte is its code point
Latin1(b) == b

\* bytes.decode('cp1252', 'ignore'): the five undefined bytes are dropped, the other
\* bytes of 0x80..0x9F stand for characters above U+00FF
Cp1252High ==
    <<8364, 0, 8218, 402, 8222, 8230, 8224, 8225, 710, 8240, 352, 8249, 338, 0, 381, 0,
      0, 8216, 8217, 8220, 8221, 8226, 8211, 8212, 732, 8482, 353, 8250, 339, 0, 382, 376>>
Cp1252Ignore(b) ==
    LET defined == SelectSeq(b, LAMBDA c : c < 128 \/ c > 159 \/ Cp1252High[c - 127] # 0)
    IN  [i \in 1..Len(defined) |->
            IF defined[i] < 128 \/ defined[i] > 159 THEN defined[i]
            ELSE Cp1252High[defined[i] - 127]]

\* resources.py 322-327: the data up to the first double NUL, when it is not at 0
TextData(resource_data) ==
    LET null_pos == Find(resource_data, SCRIPT_END_PATTERN, 0)
    IN  IF null_pos > 0 THEN Slice(resource_data, 0, null_pos) ELSE resource_data

\* resources.py 330-335: the decoded texts, in the order they are tried
DecodedTexts(resource_data) ==
    LET text_data == TextData(resource_data)
    IN  << Strip(DropNul(Utf8Ignore(text_data))),
           Strip(DropNul(Utf16LeIgnore(text_data))),
           Strip(DropNul(Latin1(text_data))),
           Strip(DropNul(Cp1252Ignore(text_data))) >>

\* resources.py 346-355
resource_patterns == <<
    <<65,117,116,111,72,111,116,107,101,121>>,                 \* b'AutoHotkey'
    <<83,101,110,100,73,110,112,117,116>>,                     \* b'SendInput'
    <<87,105,110,65,99,116,105,118,97,116,101>>,               \* b'WinActivate'
    <<35,78,111,69,110,118>>,                                  \* b'#NoEnv'
    <<35,83,105,110,103,108,101,73,110,115,116,97,110,99,101>>,\* b'#SingleInstance'
    <<58,58>>,                                                 \* b'::'
    <<83,108,101,101,112,44>>,                                 \* b'Sleep,'
    <<82,117,110,44>> >>                                       \* b'Run,'

\* pattern_count, line 357
PatternCount(resource_data) ==
    Cardinality({k \in 1..Len(resource_patterns) :
                    Contains(LowerBytes(resource_data), LowerBytes(resource_patterns[k]))})

\* readable_text, lines 361-368
ReadableText(resource_data) ==
    [i \in 1..Len(resource_data) |->
        IF (resource_data[i] >= 32 /\ resource_data[i] <= 126)
           \/ resource_data[i] \in {9, 10, 13}
        THEN resource_data[i] ELSE 32]

\* re.sub(r'\s+', ' ', readable_text).strip(), line 371
CleanedText(readable_text) ==
    LET t == [i \in 1..Len(readable_text) |->
                 IF IsSpace(readable_text[i]) THEN 32 ELSE readable_text[i]]
        kept == {i \in 1..Len(t) : t[i] # 32 \/ i = 1 \/ t[i - 1] # 32}
    IN  Strip(Pick(t, kept))

\* _clean_ahk_script, lines 423-449: the lines stripped, the leading empty lines
\* skipped, runs of empty lines cut to one, the whole stripped
RECURSIVE CleanedLines(_, _)
CleanedLines(lines, cleaned_lines) ==
    IF lines = <<>> THEN cleaned_lines
    ELSE LET line == Strip(DropNul(Head(lines)))
         IN  IF line = <<>>
                /\ (cleaned_lines = <<>> \/ cleaned_lines[Len(cleaned_lines)] = <<>>)
             THEN CleanedLines(Tail(lines), cleaned_lines)
             ELSE CleanedLines(Tail(lines), Append(cleaned_lines, line))

clean_ahk_script(script) == Strip(Join(CleanedLines(Split(script), <<>>)))

Returned(technique, t) ==
    <<[technique |-> technique, text |-> t, content |-> clean_ahk_script(t)]>>

\* the gate of technique (b) is reached: (a) returned nothing, the data is long enough
\* and holds two of the patterns
ReachesB(resource_data) ==
    /\ \A e \in 1..4 : ~is_likely_ahk_script(DecodedTexts(resource_data)[e])
    /\ Len(resource_data) > RESOURCE_MIN_SIZE
    /\ PatternCount(resource_data) >= 2

\* _extract_ahk_from_resource, lines 311-378: None, or the cleaned script
extract_ahk_from_resource(resource_data) ==
    LET decoded == DecodedTexts(resource_data)
        likely_ones == {e \in 1..4 : is_likely_ahk_script(decoded[e])}
        cleaned_text == CleanedText(ReadableText(resource_data))
    IN  IF likely_ones # {} THEN Returned("a", decoded[Min(likely_ones)])
        ELSE IF /\ ReachesB(resource_data)
                /\ Len(cleaned_text) > CLEANED_MIN_SIZE
                /\ is_likely_ahk_script(cleaned_text)
        THEN Returned("b", cleaned_text)
        ELSE <<>>

\* Method 2 of the child path has found its two matches (extractor.py 151)
ReachesRaw(blob) == PatternMatches(blob, Len(ahk_patterns)) >= 2

\* the text Method 2 then looks at: clean_script (extractor.py 153-167)
RawText(blob) ==
    Join(CleanLines(Split(Utf8Ignore(Slice(blob, PotentialStart(blob, Len(ahk_patterns)),
                                           Len(blob)))), <<>>))

\* _extract_subprocess_scripts, Method 2 (lines 122-179), on a blob
GT_Method2 ==
    /\ g_data # <<>>
    /\ "raw" \notin g_applied
    /\ g_applied' = g_applied \cup {"raw"}
    /\ g_raw' = RawScripts(g_data)
    /\ UNCHANGED <<g_data, g_res>>
    /\ UNCHANGED <<NotMore, enumVars, peVars, fileVars, runVars>>

\* extract_scripts_from_resources, lines 292-296, on the data of one resource
GT_Resource ==
    /\ g_data # <<>>
    /\ "resource" \notin g_applied
    /\ g_applied' = g_applied \cup {"resource"}
    /\ g_res' = LET script_content == extract_ahk_from_resource(g_data)
                IN  IF script_content # <<>> /\ script_content[1].content # <<>>
                    THEN script_content ELSE <<>>
    /\ UNCHANGED <<g_data, g_raw>>
    /\ UNCHANGED <<NotMore, enumVars, peVars, fileVars, runVars>>

\* the byte strings tried: a head, a body, a tail
Spaces(n) == [i \in 1..n |-> 32]
OneLineBytes ==
    <<35,78,111,69,110,118,32,83,108,101,101,112,44,32,49,48,48,32,82,117,110,44,32,120>>
                                                  \* b'#NoEnv Sleep, 100 Run, x'
ShortBytes == <<35,78,111,69,110,118,10,83,108,101,101,112,44,32,49>>
                                                  \* b'#NoEnv\nSleep, 1'
PlainBytes ==
    <<77,115,103,66,111,120,32,104,101,108,108,111,10,119,111,114,108,100,10,97,103,97,105,110>>
                                                  \* b'MsgBox hello\nworld\nagain'
LongBytes == RawBytes \o <<32>> \o PlainBytes     \* over 50 bytes, likely

GateHeads == {<<>>, <<120, 0, 0>>}                \* b'', b'x\x00\x00'
GateBodies == {TwoColonBytes, RawBytes, OneLineBytes, ShortBytes, PlainBytes, LongBytes}
GateTails == {<<>>, Spaces(RESOURCE_MIN_SIZE), Zeros(RESOURCE_MIN_SIZE)}
GateData == {h \o b \o t : h \in GateHeads, b \in GateBodies, t \in GateTails}

InitGate ==
    /\ ProcIdle
    /\ FirstToolsIdle
    /\ EnumIdle
    /\ PeIdle
    /\ FilesIdle
    /\ RunIdle
    /\ g_data \in GateData
    /\ g_applied = {} /\ g_raw = <<>> /\ g_res = <<>>

NextGate == GT_Method2 \/ GT_Resource

SpecGate == InitGate /\ [][NextGate]_vars

----------------------------------------------------------------------------
(* C22: the gates of the three heuristic paths *)

\* C22: the likelihood test is the one gate of the three heuristic paths: Method 2 of
\* the child path, technique (a) and technique (b) of the resources each write a text
\* if and only if the text reaches the path's gate and passes _is_likely_ahk_script.
C22_LikelihoodIsTheOnlyGate ==
    /\ "raw" \in g_applied
          => (g_raw # <<>> <=> (ReachesRaw(g_data) /\ is_likely_ahk_script(RawText(g_data))))
    /\ "resource" \in g_applied
          => /\ (g_res # <<>> /\ g_res[1].technique = "a")
                   <=> \E e \in 1..4 : is_likely_ahk_script(DecodedTexts(g_data)[e])
             /\ (g_res # <<>> /\ g_res[1].technique = "b")
                   <=> (ReachesB(g_data)
                        /\ is_likely_ahk_script(CleanedText(ReadableText(g_data))))

\* what the code does: technique (a) has the likelihood test as its only gate ...
C22_TechniqueAGate ==
    "resource" \in g_applied
        => ((g_res # <<>> /\ g_res[1].technique = "a")
               <=> \E e \in 1..4 : is_likely_ahk_script(DecodedTexts(g_data)[e]))

\* ... technique (b) asks for more than 50 characters as well ...
C22_TechniqueBGate ==
    "resource" \in g_applied
        => ((g_res # <<>> /\ g_res[1].technique = "b")
               <=> (/\ ReachesB(g_data)
                    /\ Len(CleanedText(ReadableText(g_data))) > CLEANED_MIN_SIZE
                    /\ is_likely_ahk_script(CleanedText(ReadableText(g_data)))))

\* ... and Method 2 never calls the likelihood test: three kept lines and the name of
\* one of the first eight patterns
C22_Method2Gate ==
    "raw" \in g_applied
        => (g_raw # <<>>
               <=> (/\ ReachesRaw(g_data)
                    /\ Len(Split(RawText(g_data))) >= 3
                    /\ \E k \in 1..8 : Contains(RawText(g_data), ahk_patterns[k].lit)))

\* every text a resource technique returns passes the likelihood test
C22_ResourceTextsAreLikely ==
    g_res # <<>> => is_likely_ahk_script(g_res[1].text)

\* Method 2 wrote a text that fails the likelihood test
C22_RawWrittenUnlikely == g_raw # <<>> /\ ~is_likely_ahk_script(g_raw[1])

\* Method 2 refused a text at its gate that passes the likelihood test
C22_RawRefusedLikely ==
    "raw" \in g_applied /\ g_raw = <<>> /\ ReachesRaw(g_data)
        /\ is_likely_ahk_script(RawText(g_data))

\* technique (b) refused a text at its gate that passes the likelihood test
C22_TechniqueBRefusedLikely ==
    "resource" \in g_applied /\ g_res = <<>> /\ ReachesB(g_data)
        /\ is_likely_ahk_script(CleanedText(ReadableText(g_data)))

----------------------------------------------------------------------------
(* C23: the numbers of the files of one child *)

MethodTags == {"_subprocess", "_subprocess_raw", "_subprocess_string"}

\* the file is the n-th script of the process, written by the method of tag t
NumberedAs(name, t, n) == name = FileNameOf("core", pid, n, t)

\* the file was written by the method of tag t
WrittenBy(name, t) == \E n \in 1..scripts : NumberedAs(name, t, n)

\* the number in the name of a file
NumberOf(name) == CHOOSE n \in 1..scripts : \E t \in MethodTags : NumberedAs(name, t, n)

\* how many of the first i files the method of tag t wrote
CountBy(t, i) == Cardinality({j \in 1..i : WrittenBy(writes[j].name, t)})

ChildCall == impl = "core" /\ is_subprocess

\* C23: the scripts of one child are numbered per method: each method counts its own
\* scripts, so a script accepted by one method never changes the number another method
\* gives to its next script.  (Stated for the calls in which no write failed.)
C23_NumberedPerMethod ==
    (ChildCall /\ raised = {}) =>
        \A i \in 1..Len(writes) : \A t \in MethodTags :
            WrittenBy(writes[i].name, t) => NumberedAs(writes[i].name, t, CountBy(t, i))

\* what the code does: one counter for the three methods, current_scripts +
\* scripts_found, so the numbers of a process increase over all its files together
C23_NumberedPerProcess ==
    ChildCall =>
        \A i \in 1..Len(writes) : \A j \in 1..Len(writes) :
            i < j => NumberOf(writes[i].name) < NumberOf(writes[j].name)

\* without a failed write the i-th file of the process has the number i
C23_CountsAllMethodsTogether ==
    (ChildCall /\ raised = {}) =>
        \A i \in 1..Len(writes) : NumberOf(writes[i].name) = i

\* a child whose second file is the first of its method and has the number 2
C23_SecondFileOfProcessFirstOfMethod ==
    /\ ChildCall /\ Len(writes) >= 2
    /\ \E t \in MethodTags : NumberedAs(writes[2].name, t, 2) /\ CountBy(t, 2) = 1

----------------------------------------------------------------------------
(* C26: the total of a run and the results of its tasks *)

\* the sum of scripts_count over the tasks of S
RECURSIVE SumOfResults(_)
SumOfResults(S) ==
    IF S = {} THEN 0
    ELSE LET p == Min(S) IN result[p] + SumOfResults(S \ {p})

PoolReturned == x_pc = "returned"

\* C26: the total the run reports is the sum of scripts_count over the results of all
\* the tasks that were submitted and completed, whatever the order in which they
\* complete, also when the stop flag is set while they are completing.
C26_TotalIsSumOverCompletedTasks ==
    PoolReturned => total_scripts = SumOfResults(InState("done"))

\* what the code does: the total is the sum over the results the loop took before it
\* saw the flag, in whatever order they arrived
C26_TotalIsSumOverCollected == total_scripts = SumOfResults(yielded)

\* and with the flag never set that is every task
C26_WithoutStopTotalIsSumOverAll ==
    (PoolReturned /\ ~stop_monitoring) => total_scripts = SumOfResults(Tasks)

\* every submitted task has completed when the function returns
C26_AllTasksCompletedAtReturn == PoolReturned => InState("done") = Tasks

\* a task completed with a script that the total does not count
C26_CompletedButNotCounted ==
    PoolReturned /\ \E p \in InState("done") \ yielded : result[p] > 0

----------------------------------------------------------------------------
(* The result of process_single_pid: C28 *)

FinalStatuses ==
    {"terminated_before_processing", "terminated_during_unpack",
     "terminated_before_extraction", "extracted_successfully",
     "extracted_after_timeout", "extracted_on_retry", "error"}

ExtractedStatuses ==
    {"extracted_successfully", "extracted_after_timeout", "extracted_on_retry"}

\* process_single_pid has reached its return statement
PidReturned == impl = "core" /\ c_pc = "done"

\* the position of process_single_pid in the order of its statements
PcRank(pc) ==
    CASE pc = "call" -> 0
      [] pc = "wait" -> 1
      [] pc = "exists" -> 2
      [] pc = "extract" -> 3
      [] pc = "retry_exists" -> 4
      [] pc = "retry" -> 5
      [] pc = "done" -> 6

\* the returned status is final, and scripts are counted only with extracted_*
C28_FinalStatusAtReturn ==
    PidReturned =>
        /\ status \in FinalStatuses
        /\ scripts_count > 0 => status \in ExtractedStatuses
        /\ status = "error" <=> error # "none"

\* extract_scripts is entered at line 253, or at line 267 for a child whose first
\* pass returned zero scripts
C28_CallsOfExtractScripts ==
    (impl = "core" /\ e_pc # "call" /\ e_pc' = "call") =>
        \/ c_pc = "exists" /\ c_pc' = "extract"
        \/ /\ c_pc = "retry_exists" /\ c_pc' = "retry"
           /\ ~is_main_process /\ scripts_count = 0

\* no statement of process_single_pid runs twice
C28_NeverGoesBack == impl = "core" => PcRank(c_pc') >= PcRank(c_pc)

\* C28: process_single_pid always returns a result whose status is final (never
\* unknown, unpack_timeout or unpacked_successfully); scripts_count > 0 holds only
\* with an extracted_* status; extract_scripts is invoked at most twice per call,
\* the second time only for a child whose first pass returned zero scripts.
C28_FinalResultAndAtMostTwoPasses ==
    /\ []C28_FinalStatusAtReturn
    /\ [][C28_CallsOfExtractScripts]_vars
    /\ [][C28_NeverGoesBack]_vars

\* a child that timed out, gave nothing in its first pass and scripts in its second
C28_Witness ==
    /\ PidReturned /\ ~is_main_process
    /\ status = "extracted_on_retry" /\ scripts_count > 0

\* the exception raised inside the second pass is returned as the status 'error'
C28_ErrorInRetry ==
    PidReturned /\ status = "error" /\ ~is_main_process /\ now >= 2 /\ scripts_count = 0

----------------------------------------------------------------------------
(* The cycles of _wait_for_child_processes: C24 *)

\* C24: the loop starts with a budget of 15 cycles; a process added to the
\* monitored set during a cycle with index >= 10 extends the budget by 3, the loop
\* runs the cycles of its extended budget, and never more than 25. Stated on the
\* exit of the loop: it ends on the stop flag or when the cycles run reach the
\* budget.
C24_LoopRunsItsBudget ==
    [][(dump.pc = "cycle" /\ dump'.pc = "phase5") =>
          (stop_event \/ dump.i >= dump.wait_cycles)]_vars

\* the number of cycles run never exceeds the 15 of range(wait_cycles)
C24_AtMostFifteenCycles == dump.i <= ChildWaitCycles

\* the variable wait_cycles is 15 plus 3 per detection, at most 25
C24_BudgetVariableCapped ==
    dump.pc \in {"cycle", "slept"} =>
        /\ dump.wait_cycles \in ChildWaitCycles..ExtendCap
        /\ (dump.wait_cycles - ChildWaitCycles) % ExtendBy = 0 \/ dump.wait_cycles = ExtendCap

\* the variable is raised only by a detection in a cycle with index >= 10
C24_ExtendedOnlyOnLateDetection ==
    [][(dump.pc = "slept" /\ dump'.wait_cycles # dump.wait_cycles) =>
          /\ dump.i >= ExtendAfter
          /\ Cardinality(monitored_pids) > dump.current_count
          /\ dump'.wait_cycles = Min({dump.wait_cycles + ExtendBy, ExtendCap})]_vars

\* a child was detected in a late cycle, and the loop ended after 15 cycles all
\* the same
C24_ExtendedButEndedAtFifteen ==
    /\ dump.pc = "phase5" /\ dump.waited /\ ~stop_event
    /\ dump.wait_cycles > ChildWaitCycles
    /\ dump.i = ChildWaitCycles

----------------------------------------------------------------------------
(* The primary process exits before any child is tracked: C25 *)

\* the primary was launched and was gone when _handle_main_process_unpack looked
\* for it (line 535), and no child was tracked during the run
PrimaryGoneAlone ==
    /\ monitor_children
    /\ dump.pc \notin {"idle", "start", "unpack"}
    /\ ~dump.waited
    /\ monitored_pids = {main_pid}

\* C25: with child monitoring enabled, a primary process that exits before any
\* child was added to the monitored set makes the run a run-level failure (the
\* blocking error of line 517-520), not a normal run that reports zero scripts.
C25_PrimaryExitIsRunFailure ==
    (RunEnded /\ PrimaryGoneAlone) => dump.error # "none"

\* such a run extracts nothing
C25_PrimaryGoneAloneCountsNothing ==
    PrimaryGoneAlone => dump.total_scripts = 0 /\ dump.active_pids = {}

\* the monitor thread ends by itself once the primary is gone
C25_MonitorEndsWithoutParent ==
    [][(monitor.pc = "test" /\ ~Exists(main_pid)) => monitor'.pc \in {"test", "ended"}]_vars

\* the child-discovery wait goes on for a primary that is gone, the flag unset
C25_WaitsForChildrenOfNoParent ==
    PrimaryGoneAlone /\ dump.pc = "slept" /\ dump.i = ExtendAfter /\ ~stop_event

\* the run then ends as a normal run: 15 cycles, no error, zero scripts
C25_EndsAsNormalRun ==
    /\ RunEnded /\ PrimaryGoneAlone
    /\ dump.i = ChildWaitCycles /\ dump.error = "none" /\ dump.total_scripts = 0

----------------------------------------------------------------------------
(* The order of the phases of one run: C27 *)

\* _wait_for_child_processes has been entered in this run (line 559)
ChildWaitBegun == dump.wait_cycles > 0

\* a call of wait_for_unpack on the primary process is in progress
UnpackWaitInProgress == w_pc \notin {"idle", "done"}

\* the tasks are submitted from phase 5 only, which is entered after the loop
TasksBeginAfterTheLoop ==
    (dump'.pc = "pool" /\ dump.pc # "pool") =>
        (dump.pc = "active" /\ dump.it_for = "extract" /\ dump.extracted)

\* C27: every unpack-wait performed on the primary process ends before
\* child-discovery waiting begins, and child-discovery waiting ends before any
\* per-process extraction task of the parallel phase begins.
\* The first half is stated here; the second half is C27_ChildWaitEndsBeforeTasks.
C27_PipelineOrdering == ChildWaitBegun => ~UnpackWaitInProgress

\* the wait of phase 3 has ended when child-discovery waiting begins
C27_FirstWaitEndsBeforeChildWait ==
    (UnpackWaitInProgress /\ ChildWaitBegun) => dump.pc = "task"

\* child-discovery waiting has ended when the tasks begin
C27_ChildWaitEndsBeforeTasks == [][TasksBeginAfterTheLoop]_vars

\* phase 5 follows phase 4 or the loop
C27_PhaseFiveAfterTheLoop ==
    [][(dump'.pc = "phase5" /\ dump.pc # "phase5") => dump.pc \in {"phase4", "cycle"}]_vars

\* the task of the primary polls for the unpack after 15 cycles of child waiting
C27_PrimaryWaitedForAgain ==
    /\ dump.pc = "task" /\ w_pc = "scan"
    /\ dump.waited /\ dump.i = ChildWaitCycles

----------------------------------------------------------------------------
(* The polls of monitor_child_processes: C30 *)

\* a pid is added to the set in this step
Added(c) == c \in monitored_pids' /\ c \notin monitored_pids

\* a child is added only by the poll that sees it for the first time
AddedAtFirstPollOnly ==
    \A c \in KidPids :
        Added(c) => /\ monitor.pc = "scan"
                    /\ c \in monitor.todo
                    /\ c \notin monitor.initial_children

\* a step of the monitor thread removes no pid from the set
MonitorRemovesNothing == monitor' # monitor => monitored_pids \subseteq monitored_pids'

\* C30: monitor_child_processes evaluates each descendant for tracking only at the
\* first poll that observes it: a descendant not added at that poll (no .exe name,
\* access denied, gone after the settle delay) is never added by a later poll, and
\* the monitor never removes a pid from the set.
C30_EvaluatedAtFirstPollOnly ==
    [][AddedAtFirstPollOnly /\ MonitorRemovesNothing]_vars

\* the children known from earlier polls are not evaluated again
C30_KnownChildrenAreSkipped == monitor.todo \cap monitor.initial_children = {}

\* a later poll sees a running child that its first poll did not add, and leaves it
C30_Witness ==
    \E c \in KidPids :
        /\ c \in kids /\ c \notin monitored_pids
        /\ c \in monitor.initial_children
        /\ monitor.pc = "scan" /\ c \in monitor.current_children /\ monitor.todo = {}

\* a child is added at its first poll
C30_AddedAtFirstPoll ==
    \E c \in KidPids :
        c \in monitored_pids /\ monitor.pc = "scan" /\ c \notin monitor.initial_children

----------------------------------------------------------------------------
(* The walk over resource sections whose offsets point anywhere: C29 *)

\* what an entry may point at: the root directory, one of the three parts, or the
\* last 8 bytes of the buffer, where no 16-byte record fits
Targets == {"root", "name", "lang", "data", "end"}

\* the entry's offset field: the directory bit and the place
Pointers == [dir : BOOLEAN, at : Targets]

\* a three-level tree in which each of the three directory entries points anywhere,
\* back to its own or an enclosing directory included
TwistedTrees ==
    [layout : Layouts, root_to : Pointers, name_to : Pointers, lang_to : Pointers]

TargetOffset(t, at) ==
    CASE at = "root" -> 0
      [] at = "end" -> TreeSize - IMAGE_RESOURCE_DIRECTORY_ENTRY_SIZE
      [] OTHER -> PartOffset(t, at)

PointerBytes(t, ptr) ==
    IF ptr.dir THEN LE32Dir(TargetOffset(t, ptr.at)) ELSE LE32(TargetOffset(t, ptr.at))

TwistedPart(t, part) ==
    CASE part = "name" -> DirHeader(0, 1) \o LE32(1) \o PointerBytes(t, t.name_to)
      [] part = "lang" -> DirHeader(0, 1) \o LE32(1033) \o PointerBytes(t, t.lang_to)
      [] part = "data" -> LE32(4184) \o LE32(300) \o LE32(0) \o LE32(0)

TwistedBytes(t) ==
    DirHeader(0, 1) \o LE32(RT_RCDATA) \o PointerBytes(t, t.root_to)
    \o TwistedPart(t, t.layout[1]) \o TwistedPart(t, t.layout[2])
    \o TwistedPart(t, t.layout[3])

\* _parse_resource_directory called on the bytes of a twisted tree
InitWalk ==
    /\ ProcIdle
    /\ MoreIdle
    /\ applied = FALSE
    /\ RvaIdle
    /\ tree \in TwistedTrees
    /\ cut = TreeSize
    /\ rsrc_data = TwistedBytes(tree)
    /\ resources = <<>>
    /\ logged = FALSE
    /\ LikelyIdle
    /\ PoolIdle

SpecWalk == InitWalk /\ [][NextRsrc]_vars

\* the one entry of the directory that lies at a place; the data entry and the
\* buffer's end hold no directory with entries
EntryOf(t, at) ==
    CASE at = "root" -> t.root_to
      [] at = "name" -> t.name_to
      [] at = "lang" -> t.lang_to

HasEntry(at) == at \in {"root", "name", "lang"}

\* the 16 bytes at a place read as a data entry
RecordAt(data, off) ==
    [data_rva |-> U32(data, off), data_size |-> U32(data, off + 4)]

\* the pair a data pointer yields: none past the buffer's end
PairOf(t, ptr) ==
    IF ptr.at = "end" THEN <<>>
    ELSE <<RecordAt(TwistedBytes(t), TargetOffset(t, ptr.at))>>

\* the walk told on the pointers: the root entry is followed as a directory only,
\* the second level follows a directory or reads a record, the third level reads a
\* record and follows nothing
WalkOf(t) ==
    IF ~t.root_to.dir \/ ~HasEntry(t.root_to.at) THEN <<>>
    ELSE LET second == EntryOf(t, t.root_to.at)
         IN  IF ~second.dir THEN PairOf(t, second)
             ELSE IF ~HasEntry(second.at) THEN <<>>
             ELSE LET third == EntryOf(t, second.at)
                  IN  IF third.dir THEN <<>> ELSE PairOf(t, third)

\* every returned pair is the content of a 16-byte record inside the buffer
ReadInsideBuffer ==
    \A i \in 1..Len(resources) :
        \E off \in 0..(Len(rsrc_data) - DATA_ENTRY_SIZE) :
            resources[i] = RecordAt(rsrc_data, off)

\* some directory entry points back at its own or an enclosing directory
HasCycle(t) ==
    \/ t.root_to.at = "root"
    \/ t.name_to.dir /\ t.name_to.at \in {"root", "name"}
    \/ t.lang_to.dir /\ t.lang_to.at \in {"root", "name", "lang"}

\* C29: the walk ends for every buffer, cycles included, after at most three
\* levels: it returns what the three levels read and nothing more; an entry with
\* the directory bit at the language level is not followed; every returned pair
\* was read from a 16-byte record lying inside the buffer; no except clause runs.
C29_WalkEndsAfterThreeLevels ==
    applied =>
        /\ resources = WalkOf(tree)
        /\ Len(resources) <= 1
        /\ ReadInsideBuffer
        /\ ~logged

\* the whole path is a cycle: every entry is a directory entry that points at the
\* root, and the walk has ended with no pair
C29_Witness ==
    /\ applied
    /\ tree.root_to = [dir |-> TRUE, at |-> "root"]
    /\ resources = <<>>

\* the language entry has the directory bit and points back at the name directory
C29_LanguageCycleNotFollowed ==
    /\ applied
    /\ tree.root_to = [dir |-> TRUE, at |-> "name"]
    /\ tree.name_to = [dir |-> TRUE, at |-> "lang"]
    /\ tree.lang_to = [dir |-> TRUE, at |-> "name"]
    /\ resources = <<>>

\* a record is read out of a directory's own bytes
C29_RecordReadFromDirectory ==
    /\ applied
    /\ tree.root_to = [dir |-> TRUE, at |-> "name"]
    /\ tree.name_to = [dir |-> FALSE, at |-> "root"]
    /\ Len(resources) = 1

=============================================================================
